---- MODULE Spec2Model ----
(***************************************************************************)
(* A model of the vcd python api-client: the TaskMonitor polling loop      *)
(* (vcd/client/task_monitor.py) and the VcdClient request pipeline         *)
(* (vcd/client/vcd_client.py over vcd/client/api_client.py).               *)
(*                                                                         *)
(* Text the code inspects character by character (URLs, Link headers,      *)
(* task status values) is a sequence of one-character strings; text the    *)
(* code only stores, compares or concatenates is a TLA+ string.            *)
(***************************************************************************)
EXTENDS Integers, Sequences, FiniteSets, TLC

VARIABLES
    \* ---- TaskMonitor.wait_for_status (one call) ----
    mon_pc,          \* "idle" | "poll" | "sleep" | "returned" | "raised"
    mon_args,        \* the arguments wait_for_status runs with
    start_time,      \* datetime.now() taken at line 72
    now,             \* the wall clock, in seconds
    fetched,         \* the tasks _get_task returned, in order
    cb_calls,        \* how many times the callback was invoked
    mon_result,      \* the returned task
    mon_raised,      \* the exception raised
    \* ---- VcdClient ----
    base_uri,        \* self._base_uri
    api_version,     \* self._api_version
    default_headers, \* ApiClient._default_headers
    last_status,     \* self._status
    last_headers,    \* self._headers
    last_links,      \* self._links
    last_task,       \* self._task
    \* ---- one call of the application into the request pipeline ----
    req_pc,          \* "idle" | "sent" (inside the transport) | "done"
    call,            \* the arguments the application called _do_request with
    stack,           \* the _do_request activations, the innermost last
    wire,            \* the request the transport was last invoked with
    transport_calls, \* transport invocations made by the current call
    resp,            \* what the transport last answered
    own_resp,        \* what the transport answered to the caller's own request
    req_result,      \* the value returned to the application
    req_raised,      \* the exception raised to the application
    \* ---- the application's other calls ----
    found,           \* the outcome of the last find_link call
    session,         \* self._session
    op,              \* the set_credentials or logout call in progress
    granted,         \* token type and token of the last successful login
    \* ---- serialization of model objects ----
    ser_pc,          \* "idle", "built", "serialized" or "deserialized"
    ser_obj,         \* the object handed to sanitize_for_serialization
    ser_out,         \* what sanitize_for_serialization returned
    ser_back,        \* what deserialization of ser_out returned
    ser_type,        \* the type name a payload is deserialized against
    \* ---- callers that share the client ----
    threads,         \* each concurrent caller's position and local values
    \* ---- the logger ----
    log              \* the entries written by _do_log_headers

mon_vars == <<mon_pc, mon_args, start_time, now, fetched, cb_calls,
              mon_result, mon_raised>>

client_vars == <<base_uri, api_version, default_headers, last_status,
                 last_headers, last_links>>

req_vars == <<req_pc, call, stack, wire, transport_calls, resp, own_resp,
              req_result, req_raised>>

ser_vars == <<ser_pc, ser_obj, ser_out, ser_back, ser_type>>

app_vars == <<found, session, op, granted, ser_pc, ser_obj, ser_out, ser_back,
          ser_type, threads,
                   log>>

vars == <<mon_pc, mon_args, start_time, now, fetched, cb_calls,
          mon_result, mon_raised, base_uri, api_version, default_headers,
          last_status, last_headers, last_links, last_task, req_pc, call,
          stack, wire, transport_calls, resp, own_resp, req_result, req_raised,
          found, session, op, granted, ser_pc, ser_obj, ser_out, ser_back,
          ser_type, threads,
                   log>>

(***************************************************************************)
(* Bounds of the model.                                                    *)
(***************************************************************************)
MaxPolls == 3
MaxTimeout == 1
MaxPollFreq == 1
MaxFollowUps == 2

(***************************************************************************)
(* Python values.                                                          *)
(***************************************************************************)
None == "None"
\* None where the code expects text it inspects character by character
NoneStr == <<"None">>

(***************************************************************************)
(* str operations on character sequences.                                  *)
(***************************************************************************)
UpperToLower ==
    [c \in {"A", "B", "C", "D", "E", "N", "O", "P", "Q", "R", "S", "U"} |->
        CASE c = "A" -> "a" [] c = "B" -> "b" [] c = "C" -> "c"
          [] c = "D" -> "d" [] c = "E" -> "e" [] c = "N" -> "n"
          [] c = "O" -> "o" [] c = "P" -> "p" [] c = "Q" -> "q"
          [] c = "R" -> "r" [] c = "S" -> "s" [] c = "U" -> "u"]

\* str.lower()
Lower(s) ==
    [i \in 1..Len(s) |->
        IF s[i] \in DOMAIN UpperToLower THEN UpperToLower[s[i]] ELSE s[i]]

\* s[i..] (1-based), the empty text when i is past the end
Drop(s, i) == SubSeq(s, i, Len(s))

\* `sub in s`
Contains(sub, s) ==
    \E i \in 1..(Len(s) - Len(sub) + 1) : SubSeq(s, i, i + Len(sub) - 1) = sub

\* s.startswith(prefix)
StartsWith(s, prefix) ==
    Len(prefix) <= Len(s) /\ SubSeq(s, 1, Len(prefix)) = prefix

\* the index of the first occurrence of the character c in s, 0 when absent
RECURSIVE IndexOf(_, _, _)
IndexOf(s, c, from) ==
    IF from > Len(s) THEN 0
    ELSE IF s[from] = c THEN from
    ELSE IndexOf(s, c, from + 1)

\* s.split(c) for a one-character separator: the list of the pieces
RECURSIVE Split(_, _)
Split(s, c) ==
    LET i == IndexOf(s, c, 1) IN
    IF i = 0 THEN <<s>>
    ELSE <<SubSeq(s, 1, i - 1)>> \o Split(Drop(s, i + 1), c)

RECURSIVE LStrip(_, _)
LStrip(s, chars) ==
    IF s # <<>> /\ Head(s) \in chars THEN LStrip(Tail(s), chars) ELSE s

RECURSIVE RStrip(_, _)
RStrip(s, chars) ==
    IF s # <<>> /\ s[Len(s)] \in chars
    THEN RStrip(SubSeq(s, 1, Len(s) - 1), chars)
    ELSE s

\* s.strip(chars)
Strip(s, chars) == RStrip(LStrip(s, chars), chars)

(***************************************************************************)
(* task_monitor.py: TaskStatus                                             *)
(***************************************************************************)
QUEUED == <<"q", "u", "e", "u", "e", "d">>
PRE_RUNNING == <<"p", "r", "e", "R", "u", "n", "n", "i", "n", "g">>
RUNNING == <<"r", "u", "n", "n", "i", "n", "g">>
SUCCESS == <<"s", "u", "c", "c", "e", "s", "s">>
ERROR == <<"e", "r", "r", "o", "r">>
CANCELED == <<"c", "a", "n", "c", "e", "l", "e", "d">>
ABORTED == <<"a", "b", "o", "r", "t", "e", "d">>

TaskStatus == {QUEUED, PRE_RUNNING, RUNNING, SUCCESS, ERROR, CANCELED, ABORTED}

DEFAULT_POLL_SEC == 5
DEFAULT_TIMEOUT_SEC == 600

\* the default of wait_for_status's fail_on_statuses parameter
DefaultFailOnStatuses == <<ABORTED, CANCELED, ERROR>>
\* the default of wait_for_status's expected_target_statuses parameter
DefaultTargetStatuses == <<SUCCESS>>

(***************************************************************************)
(* The server: status values a fetched task may carry on the wire.         *)
(***************************************************************************)
WireSuccessUpper == <<"S", "U", "C", "C", "E", "S", "S">>
WireErrorCap == <<"E", "r", "r", "o", "r">>
WireStatuses == {QUEUED, RUNNING, SUCCESS, WireSuccessUpper, WireErrorCap,
                 CANCELED, ABORTED}
TaskErrors == {None, "err1"}
TaskHref == "https://h/api/task/1"

\* the task object the caller passes in (returned by an earlier post or put)
ArgTask(operation) ==
    [class |-> "TaskType", href |-> TaskHref, operation |-> operation,
     status |-> QUEUED, error |-> None]

\* the TaskType a GET of the task href decodes to
FetchedTask(href, st, err) ==
    [class |-> "TaskType", href |-> href, operation |-> "op", status |-> st,
     error |-> err]

\* None where the code expects an object
NoneObj == [isNone |-> TRUE]
NoneTask == NoneObj
NoExc == [type |-> "none"]

(***************************************************************************)
(* task_monitor.py: TaskMonitor.wait_for_status                            *)
(***************************************************************************)
\* fail_on_statuses as the caller passes it: None, one TaskStatus, or a list
FailNone == [kind |-> "None", v |-> <<>>]
FailEnum(st) == [kind |-> "TaskStatus", v |-> <<st>>]
FailList(l) == [kind |-> "list", v |-> l]

\* lines 80-81 and 83-84: the for loop comparing task_status with each
\* status.value.lower()
RECURSIVE StatusMatches(_, _)
StatusMatches(task_status, statuses) ==
    IF statuses = <<>> THEN FALSE
    ELSE IF task_status = Lower(Head(statuses)) THEN TRUE
    ELSE StatusMatches(task_status, Tail(statuses))

\* line 79 without the lower(): a case-sensitive comparison
TaskStatusOfCaseSensitive(t) == t.status

\* line 79: task_status = task.status.lower()
TaskStatusOf(t) == Lower(t.status)

\* line 86: start_time - datetime.now() > timedelta(seconds=timeout)
TimeoutReached(start, clock, timeout) == start - clock > timeout

\* line 82 returning the task the caller passed in
ReturnedTaskStale(arg_task, fetched_task) == arg_task

\* line 75 rebinds `task` to the fetched task; line 82 returns it
ReturnedTask(arg_task, fetched_task) == fetched_task

\* lines 65-73: the code before the loop
EnterWaitForStatus(entry, t, timeout, poll_frequency, fail, targets, callback) ==
    /\ mon_args' = [entry |-> entry, task |-> t, timeout |-> timeout,
                    poll_frequency |-> poll_frequency,
                    fail_on_statuses |-> fail,
                    expected_target_statuses |-> targets,
                    callback |-> callback]
    /\ start_time' = now
    /\ mon_result' = NoneTask
    /\ IF fail.kind = "TaskStatus"
       THEN \* line 68 subscripts the unbound local _fail_on_statuses
            /\ mon_pc' = "raised"
            /\ mon_raised' = [type |-> "UnboundLocalError"]
       ELSE IF t.operation = None
       THEN \* line 73: 'Waiting for task: ' + None
            /\ mon_pc' = "raised"
            /\ mon_raised' = [type |-> "TypeError"]
       ELSE /\ mon_pc' = "poll"
            /\ mon_raised' = NoExc
    /\ UNCHANGED <<now, fetched, cb_calls, last_task,
                   client_vars, req_vars, app_vars>>

Timeouts == (0..MaxTimeout) \cup {DEFAULT_TIMEOUT_SEC}
PollFrequencies == (1..MaxPollFreq) \cup {DEFAULT_POLL_SEC}
FailChoices == {FailNone, FailEnum(ERROR), FailList(DefaultFailOnStatuses),
                FailList(<<ERROR>>), FailList(<<SUCCESS, ERROR>>)}
TargetChoices == {DefaultTargetStatuses, <<RUNNING, SUCCESS>>}

\* TaskMonitor.wait_for_status called by the application with the task of
\* its last request (get_last_task())
WaitForStatus ==
    /\ mon_pc = "idle"
    /\ last_task # NoneTask
    /\ \E timeout \in Timeouts, poll_frequency \in PollFrequencies,
          fail \in FailChoices, targets \in TargetChoices,
          callback \in BOOLEAN :
          EnterWaitForStatus("wait_for_status", last_task, timeout,
                             poll_frequency, fail, targets, callback)

\* TaskMonitor.wait_for_success: lines 31-35
WaitForSuccessCall(entry, t, timeout, poll_frequency, callback) ==
    EnterWaitForStatus(entry, t, timeout, poll_frequency, FailList(<<ERROR>>),
                       <<SUCCESS>>, callback)

WaitForSuccess ==
    /\ mon_pc = "idle"
    /\ last_task # NoneTask
    /\ \E timeout \in Timeouts, poll_frequency \in PollFrequencies,
          callback \in BOOLEAN :
          WaitForSuccessCall("wait_for_success", last_task, timeout,
                             poll_frequency, callback)

\* VcdClient.wait_for_last_task
WaitForLastTask ==
    /\ mon_pc = "idle"
    /\ IF last_task # NoneTask
       THEN WaitForSuccessCall("wait_for_last_task", last_task,
                               DEFAULT_TIMEOUT_SEC, DEFAULT_POLL_SEC, FALSE)
       ELSE /\ mon_pc' = "returned"
            /\ mon_args' = [mon_args EXCEPT !.entry = "wait_for_last_task"]
            /\ UNCHANGED <<start_time, now, fetched, cb_calls, mon_result,
                           mon_raised, last_task,
                   client_vars, req_vars, app_vars>>

\* the server sets an error on a task only when the task failed
ErrorsFor(st) ==
    IF Lower(st) \in {ERROR, CANCELED, ABORTED} THEN TaskErrors ELSE {None}

\* lines 75-87: one iteration of the loop, up to the sleep. The GET of line
\* 75 takes time: the clock line 86 reads is later than the one the
\* iteration started at.
Poll ==
    /\ mon_pc = "poll"
    /\ Len(fetched) < MaxPolls
    /\ now' = now + 1
    /\ \E st \in WireStatuses \cup {NoneStr} :
       \E err \in (IF st = NoneStr THEN {None} ELSE ErrorsFor(st)) :
          LET t == FetchedTask(mon_args.task.href, st, err) IN
          /\ fetched' = Append(fetched, t)
          /\ IF st = NoneStr
             THEN \* line 76: 'Task status: ' + None
                  /\ mon_pc' = "raised"
                  /\ mon_raised' = [type |-> "TypeError"]
                  /\ UNCHANGED <<cb_calls, mon_result>>
             ELSE /\ cb_calls' = IF mon_args.callback THEN cb_calls + 1
                                 ELSE cb_calls
                  /\ IF StatusMatches(TaskStatusOf(t),
                                      mon_args.expected_target_statuses)
                     THEN /\ mon_pc' = "returned"
                          /\ mon_result' = ReturnedTask(mon_args.task, t)
                          /\ UNCHANGED mon_raised
                     ELSE IF StatusMatches(TaskStatusOf(t),
                                           mon_args.fail_on_statuses.v)
                     THEN /\ mon_pc' = "raised"
                          /\ mon_raised' = [type |-> "VcdTaskException",
                                            error_message |-> TaskStatusOf(t),
                                            vcd_error |-> t.error]
                          /\ UNCHANGED mon_result
                     ELSE IF TimeoutReached(start_time, now', mon_args.timeout)
                     THEN \* line 87 break, line 89
                          /\ mon_pc' = "raised"
                          /\ mon_raised' = [type |-> "TaskTimeoutException"]
                          /\ UNCHANGED mon_result
                     ELSE /\ mon_pc' = "sleep"
                          /\ UNCHANGED <<mon_result, mon_raised>>
    /\ UNCHANGED <<mon_args, start_time, last_task,
                   client_vars, req_vars, app_vars>>

\* line 75: _get_task fails, the client's typed exception propagates
PollFails ==
    /\ mon_pc = "poll"
    /\ Len(fetched) < MaxPolls
    /\ mon_pc' = "raised"
    /\ mon_raised' = [type |-> "VcdResponseException"]
    /\ UNCHANGED <<mon_args, start_time, now, fetched, cb_calls, mon_result,
                   last_task,
                   client_vars, req_vars, app_vars>>

\* line 88: time.sleep(poll_frequency)
Sleep ==
    /\ mon_pc = "sleep"
    /\ now' = now + mon_args.poll_frequency
    /\ mon_pc' = "poll"
    /\ UNCHANGED <<mon_args, start_time, fetched, cb_calls, mon_result,
                   mon_raised, last_task,
                   client_vars, req_vars, app_vars>>

(***************************************************************************)
(* vcd_client.py: VcdClient, over api_client.py: ApiClient                 *)
(***************************************************************************)
API == <<"/", "a", "p", "i">>
CLOUDAPI == <<"/", "c", "l", "o", "u", "d", "a", "p", "i">>
APPLICATION_JSON == "application/json"
APPLICATION_JSON_VCLOUD == "application/*+json"
HEADER_ACCEPT == "Accept"
HEADER_AUTHORIZATION == "Authorization"
HEADER_CONTENT_TYPE == "Content-Type"

\* self._status = None
NoStatus == -1

\* dict operations
EmptyDict == [k \in {} |-> ""]
DictSet(d, key, value) ==
    [k \in DOMAIN d \cup {key} |-> IF k = key THEN value ELSE d[k]]
DictDel(d, key) == [k \in DOMAIN d \ {key} |-> d[k]]
\* d.update(other)
DictUpdate(d, other) ==
    [k \in DOMAIN d \cup DOMAIN other |->
        IF k \in DOMAIN other THEN other[k] ELSE d[k]]

\* VcdClient._prepare_base_uri
PrepareBaseUri(host) ==
    IF Len(host) > 0
    THEN LET cut == IF host[Len(host)] = "/"
                    THEN SubSeq(host, 1, Len(host) - 1)
                    ELSE host
         IN  IF ~StartsWith(cut, <<"h", "t", "t", "p", "s", ":", "/", "/">>) /\ ~StartsWith(cut, <<"h", "t", "t", "p", ":", "/", "/">>)
             THEN <<"h", "t", "t", "p", "s", ":", "/", "/">> \o cut
             ELSE cut
    ELSE host

\* VcdClient.get_rest_uri, VcdClient.get_cloudapi_uri
GetRestUri(resource_path) == base_uri \o API \o resource_path
GetCloudapiUri(resource_path) == base_uri \o CLOUDAPI \o resource_path

\* VcdClient._is_api_uri: exc is the exception raised, "none" when it returns.
\* Line 483 applies % to a format with two %s and the one string
\* self._base_uri: the formatting raises TypeError before ClientException is
\* built.
IsApiUri(url) ==
    IF Contains(API, url) THEN [exc |-> "none", value |-> TRUE]
    ELSE IF Contains(CLOUDAPI, url) THEN [exc |-> "none", value |-> FALSE]
    ELSE [exc |-> "TypeError", value |-> FALSE]

\* VcdClient._set_accept_header
SetAcceptHeader(is_api_uri, header_params, version) ==
    LET media == IF is_api_uri THEN APPLICATION_JSON_VCLOUD
                 ELSE APPLICATION_JSON
        accept_value == IF version # None
                        THEN media \o ";version=" \o version
                        ELSE media
    IN  DictSet(header_params, HEADER_ACCEPT, accept_value)

\* ApiClient._do_request lines 245-246: the headers handed to the transport
MergeHeaders(header_params, defaults) == DictUpdate(header_params, defaults)

\* ApiClient.set_default_header
SetDefaultHeader(header_name, header_value) ==
    /\ req_pc = "idle"
    /\ default_headers' = DictSet(default_headers, header_name, header_value)
    /\ UNCHANGED <<mon_vars, base_uri, api_version, last_status, last_headers,
                   last_links, last_task, req_vars, app_vars>>

\* ApiClient.clear_default_header (del raises KeyError, and changes nothing,
\* when the header is not stored)
ClearDefaultHeader(header_name) ==
    /\ req_pc = "idle"
    /\ header_name \in DOMAIN default_headers
    /\ default_headers' = DictDel(default_headers, header_name)
    /\ UNCHANGED <<mon_vars, base_uri, api_version, last_status, last_headers,
                   last_links, last_task, req_vars, app_vars>>

\* the four last-call fields, as one value
LastCall(status, headers, links, task) ==
    [last_status |-> status, last_headers |-> headers, last_links |-> links,
     last_task |-> task]

\* line 456: self._status = self._headers = self._links = self._task = None
ResetLastCall == LastCall(NoStatus, NoneObj, NoneObj, NoneTask)

\* the four fields as they are
CurrentLastCall == LastCall(last_status, last_headers, last_links, last_task)

NoWire == [isNone |-> TRUE]
NoResp == [kind |-> "none"]

\* the arguments of one _do_request activation
RequestArgs(resource_path, method, header_params, body, response_type) ==
    [resource_path |-> resource_path, method |-> method,
     header_params |-> header_params, body |-> body,
     response_type |-> response_type]

\* what a step of the pipeline leaves behind: the last-call fields, the
\* activations still open, the transport's last request, and the outcome
Outcome(lc, stk, w, tcalls, pc, result, raised) ==
    [lc |-> lc, stack |-> stk, wire |-> w, tcalls |-> tcalls, pc |-> pc,
     result |-> result, raised |-> raised]

\* an exception no activation catches: it reaches the application
Raise(lc, w, tcalls, exc) ==
    Outcome(lc, <<>>, w, tcalls, "done", NoneObj, exc)

\* VcdClient._do_request lines 452-457 and ApiClient._do_request lines
\* 245-281: from the entry of _do_request to the transport call
BeginRequest(args, below, lc, w, tcalls) ==
    LET cat == IsApiUri(args.resource_path) IN
    IF cat.exc # "none"
    THEN Raise(lc, w, tcalls, [type |-> cat.exc])
    ELSE LET hp0 == IF args.header_params = NoneObj THEN EmptyDict
                    ELSE args.header_params
             hp1 == SetAcceptHeader(cat.value, hp0, api_version)
             hp2 == MergeHeaders(hp1, default_headers)
             frame == [args |-> args, is_api_uri |-> cat.value,
                       response_data |-> NoneObj]
         IN  Outcome(ResetLastCall, Append(below, frame),
                     [isNone |-> FALSE, method |-> args.method,
                      url |-> args.resource_path, headers |-> hp2,
                      body |-> args.body],
                     tcalls + 1, "sent", NoneObj, NoExc)

\* the primed variables of a pipeline step
Apply(o) ==
    /\ last_status' = o.lc.last_status
    /\ last_headers' = o.lc.last_headers
    /\ last_links' = o.lc.last_links
    /\ last_task' = o.lc.last_task
    /\ stack' = o.stack
    /\ wire' = o.wire
    /\ transport_calls' = o.tcalls
    /\ req_pc' = o.pc
    /\ req_result' = o.result
    /\ req_raised' = o.raised

\* VcdClient.get_resource
GetResourceArgs(href, response_type, header_params) ==
    RequestArgs(href, "GET", header_params, None, response_type)

\* VcdClient.post_resource
PostResourceArgs(href, response_type, media_type, content, header_params) ==
    RequestArgs(href, "POST",
                IF media_type # None
                THEN DictSet(EmptyDict, HEADER_CONTENT_TYPE, media_type)
                ELSE header_params,
                content, response_type)

\* VcdClient.delete_resource
DeleteResourceArgs(href, response_type, header_params) ==
    RequestArgs(href, "DELETE", header_params, None, response_type)

\* the application calls get_resource, post_resource or delete_resource;
\* built_by records how it made the href
ApiCall(hrefs, header_params, response_types, entries) ==
    /\ req_pc = "idle"
    /\ \E h \in hrefs, hp \in header_params, rt \in response_types,
          entry \in entries :
          LET args ==
                CASE entry = "get_resource" -> GetResourceArgs(h.href, rt, hp)
                  [] entry = "post_resource" ->
                        PostResourceArgs(h.href, rt, None, "content", hp)
                  [] entry = "post_resource_json" ->
                        PostResourceArgs(h.href, rt, APPLICATION_JSON,
                                         "content", hp)
                  [] entry = "delete_resource" ->
                        DeleteResourceArgs(h.href, rt, hp)
          IN  /\ call' = [entry |-> entry, args |-> args,
                          built_by |-> h.built_by]
              /\ resp' = NoResp
              /\ own_resp' = NoResp
              /\ Apply(BeginRequest(args, <<>>, CurrentLastCall, NoWire, 0))
    /\ UNCHANGED <<mon_vars, base_uri, api_version, default_headers,
                   app_vars>>

(***************************************************************************)
(* The transport's answers (the transport and the generated model classes  *)
(* are collaborators of the client).                                       *)
(***************************************************************************)
\* an optional list: None, or the list v
NoneList == [isNone |-> TRUE, v |-> <<>>]
List(l) == [isNone |-> FALSE, v |-> l]

\* an optional header value
Absent == [isNone |-> TRUE, v |-> <<>>]
Present(value) == [isNone |-> FALSE, v |-> value]

\* the response headers the client reads: X-VMWARE-VCLOUD-REQUEST-ID
\* (None when absent), Location, and the list of the Link headers
Headers(request_id, location, link) ==
    [request_id |-> request_id, location |-> location, link |-> link]

\* a 2xx answer; data is the body, already as the object of the response
\* type it decodes to
Response(status, headers, data) ==
    [kind |-> "response", status |-> status, headers |-> headers,
     data |-> data]

\* a non-2xx answer: rest.ApiException with its status, body and headers
ApiException(status, body, headers) ==
    [kind |-> "ApiException", status |-> status, body |-> body,
     headers |-> headers]

\* bodies of a non-2xx answer: no body, an empty body, a body that is not
\* JSON, the JSON null, a JSON object
BodyNone == [kind |-> "None", obj |-> EmptyDict]
BodyEmpty == [kind |-> "empty", obj |-> EmptyDict]
BodyText == [kind |-> "text", obj |-> EmptyDict]
BodyJsonNull == [kind |-> "null", obj |-> EmptyDict]
BodyJson(obj) == [kind |-> "object", obj |-> obj]

\* json.loads(ae.body): exc is the exception raised, "none" when it returns
JsonLoads(body) ==
    CASE body.kind = "None" -> [exc |-> "TypeError", isNull |-> FALSE,
                                obj |-> EmptyDict]
      [] body.kind \in {"empty", "text"} ->
            [exc |-> "JSONDecodeError", isNull |-> FALSE, obj |-> EmptyDict]
      [] body.kind = "null" -> [exc |-> "none", isNull |-> TRUE,
                                obj |-> EmptyDict]
      [] body.kind = "object" -> [exc |-> "none", isNull |-> FALSE,
                                  obj |-> body.obj]

\* ErrorType.attribute_map: attribute -> wire key
ErrorTypeAttributeMap ==
    [message |-> "message", major_error_code |-> "majorErrorCode",
     minor_error_code |-> "minorErrorCode", stack_trace |-> "stackTrace"]

\* ApiClient.__deserialize_model for a class of string attributes that is not
\* one of the openapi models: klass() and a setattr per wire key the payload
\* holds; an attribute whose key is absent keeps the constructor's None
DeserializeModel(data, klass, attribute_map) ==
    [a \in DOMAIN attribute_map \cup {"class"} |->
        IF a = "class" THEN klass
        ELSE IF attribute_map[a] \in DOMAIN data THEN data[attribute_map[a]]
        ELSE None]

\* ApiClient.__deserialize(data, ErrorType)
DeserializeError(loaded) ==
    IF loaded.isNull THEN NoneObj
    ELSE DeserializeModel(loaded.obj, "ErrorType", ErrorTypeAttributeMap)

\* a VcdResponseException
ResponseException(type, status, request_id, vcd_error) ==
    [type |-> type, status_code |-> status, request_id |-> request_id,
     vcd_error |-> vcd_error]

\* _get_specific_exception with the 416 branch missing
GetSpecificExceptionNo416(status, request_id, vcd_error) ==
    ResponseException(
        CASE status = 400 -> "BadRequestException"
          [] status = 401 -> "UnauthorizedException"
          [] status = 403 -> "AccessForbiddenException"
          [] status = 404 -> "NotFoundException"
          [] status = 405 -> "MethodNotAllowedException"
          [] status = 406 -> "NotAcceptableException"
          [] status = 408 -> "RequestTimeoutException"
          [] status = 409 -> "ConflictException"
          [] status = 415 -> "UnsupportedMediaTypeException"
          [] status = 500 -> "InternalServerException"
          [] OTHER -> "UnknownApiException",
        status, request_id, vcd_error)

\* VcdClient._get_specific_exception
GetSpecificException(status, request_id, vcd_error) ==
    IF status = 400
    THEN ResponseException("BadRequestException", status, request_id, vcd_error)
    ELSE IF status = 401
    THEN ResponseException("UnauthorizedException", status, request_id, vcd_error)
    ELSE IF status = 403
    THEN ResponseException("AccessForbiddenException", status, request_id, vcd_error)
    ELSE IF status = 404
    THEN ResponseException("NotFoundException", status, request_id, vcd_error)
    ELSE IF status = 405
    THEN ResponseException("MethodNotAllowedException", status, request_id, vcd_error)
    ELSE IF status = 406
    THEN ResponseException("NotAcceptableException", status, request_id, vcd_error)
    ELSE IF status = 408
    THEN ResponseException("RequestTimeoutException", status, request_id, vcd_error)
    ELSE IF status = 409
    THEN ResponseException("ConflictException", status, request_id, vcd_error)
    ELSE IF status = 415
    THEN ResponseException("UnsupportedMediaTypeException", status, request_id, vcd_error)
    ELSE IF status = 416
    THEN ResponseException("InvalidContentLengthException", status, request_id, vcd_error)
    ELSE IF status = 500
    THEN ResponseException("InternalServerException", status, request_id, vcd_error)
    ELSE ResponseException("UnknownApiException", status, request_id, vcd_error)

\* VcdClient._do_request lines 467-474: the handler of rest.ApiException
HandleApiException(ae, lc0, w, tcalls) ==
    LET lc == [lc0 EXCEPT !.last_status = ae.status]
        loaded == JsonLoads(ae.body)
    IN  IF loaded.exc # "none"
        THEN \* json.loads raises inside the handler
             Raise(lc, w, tcalls, [type |-> loaded.exc])
        ELSE Raise(lc, w, tcalls,
                   GetSpecificException(ae.status, ae.headers.request_id,
                                        DeserializeError(loaded)))

\* Link(): the attributes of the generated Link model, all None
LinkAttributes == {<<"h", "r", "e", "f">>, <<"r", "e", "l">>, <<"t", "y", "p", "e">>, <<"m", "o", "d", "e", "l">>, <<"i", "d">>, <<"n", "a", "m", "e">>}
NewLink == [a \in LinkAttributes |-> NoneStr]

\* lines 545-547: the attribute assignments of one Link header, from entry i
RECURSIVE SetLinkAttributes(_, _, _)
SetLinkAttributes(link, link_entries, i) ==
    IF i > Len(link_entries) THEN [exc |-> "none", link |-> link]
    ELSE LET key_value == Split(link_entries[i], "=") IN
         IF Len(key_value) < 2
         THEN \* key_value[1] of a segment without '='
              [exc |-> "IndexError", link |-> link]
         ELSE SetLinkAttributes(
                  DictSet(link, key_value[1], Strip(key_value[2], {"\""})),
                  link_entries, i + 1)

\* lines 542-547: one Link header to a Link object
ParseLinkHeader(header) ==
    LET link_entries == Split(header, ";") IN
    SetLinkAttributes(
        DictSet(NewLink, <<"h", "r", "e", "f">>, Strip(link_entries[1], {"<", ">"})),
        link_entries, 2)

\* lines 541-548: the loop over the Link headers; self._links holds the
\* links appended before an exception
RECURSIVE ParseLinkHeaders(_, _)
ParseLinkHeaders(headers, links) ==
    IF headers = <<>> THEN [exc |-> "none", links |-> List(links)]
    ELSE LET parsed == ParseLinkHeader(Head(headers)) IN
         IF parsed.exc # "none"
         THEN [exc |-> parsed.exc, links |-> List(links)]
         ELSE ParseLinkHeaders(Tail(headers), Append(links, parsed.link))

HasAttr(obj, attr) == attr \in DOMAIN obj

\* VcdClient._store_links
StoreLinks(is_api_uri, response, headers) ==
    IF is_api_uri
    THEN [exc |-> "none",
          links |-> IF HasAttr(response, "link") /\ ~response.link.isNone
                    THEN response.link
                    ELSE List(<<>>)]
    ELSE ParseLinkHeaders(headers.link, <<>>)

\* isinstance(response, TaskType)
IsTask(response) == HasAttr(response, "class") /\ response.class = "TaskType"

\* an activation returns value: each activation below it is inside
\* _store_task line 562, stores the value as self._task and returns its own
\* response_data
RECURSIVE Unwind(_, _, _, _, _)
Unwind(below, value, lc, w, tcalls) ==
    IF below = <<>>
    THEN Outcome(lc, <<>>, w, tcalls, "done", value, NoExc)
    ELSE Unwind(SubSeq(below, 1, Len(below) - 1),
                below[Len(below)].response_data,
                [lc EXCEPT !.last_task = value], w, tcalls)

\* ApiClient._do_request lines 283-295 and VcdClient._do_request lines
\* 457-466, 475: from the transport's 2xx answer to the return, or to the
\* transport call of the follow-up GET of _store_task
HandleResponse(r, stk, w, tcalls) ==
    LET top == stk[Len(stk)]
        below == SubSeq(stk, 1, Len(stk) - 1)
        return_data == IF top.args.response_type # None THEN r.data
                       ELSE NoneObj
        stored == StoreLinks(top.is_api_uri, return_data, r.headers)
        lc1 == LastCall(r.status, r.headers, stored.links, NoneTask)
        \* _store_task lines 551-553
        lc2 == [lc1 EXCEPT !.last_task = IF IsTask(return_data)
                                         THEN return_data ELSE NoneTask]
    IN  IF stored.exc # "none"
        THEN Raise(lc1, w, tcalls, [type |-> stored.exc])
        ELSE IF top.is_api_uri
        THEN \* lines 555-558
             Unwind(below, return_data,
                    IF /\ HasAttr(return_data, "tasks")
                       /\ ~return_data.tasks.isNone
                       /\ Len(return_data.tasks.v) > 0
                    THEN [lc2 EXCEPT !.last_task = return_data.tasks.v[1]]
                    ELSE lc2,
                    w, tcalls)
        ELSE IF ~r.headers.location.isNone
        THEN \* lines 560-563: get_resource(href=task_href, TaskType)
             BeginRequest(GetResourceArgs(r.headers.location.v, "TaskType",
                                          NoneObj),
                          Append(below,
                                 [top EXCEPT !.response_data = return_data]),
                          lc2, w, tcalls)
        ELSE Unwind(below, return_data, lc2, w, tcalls)

\* the answer to the caller's own request, once answer r came in: r when the
\* only activation is the caller's, the answer kept before in a follow-up GET
OwnAnswer(r) == IF Len(stack) = 1 THEN r ELSE own_resp

\* the transport answers 2xx
TransportReturns(responses) ==
    /\ req_pc = "sent"
    /\ \E r \in responses :
          \* a Location header that leads to one more follow-up GET is
          \* answered only while the follow-ups are within the bound
          /\ (~r.headers.location.isNone /\ ~stack[Len(stack)].is_api_uri)
                => Len(stack) <= MaxFollowUps
          /\ resp' = r
          /\ own_resp' = OwnAnswer(r)
          /\ Apply(HandleResponse(r, stack, wire, transport_calls))
    /\ UNCHANGED <<mon_vars, base_uri, api_version, default_headers, call,
                   app_vars>>

\* the transport answers non-2xx: it raises rest.ApiException
TransportRaises(exceptions) ==
    /\ req_pc = "sent"
    /\ \E ae \in exceptions :
          /\ resp' = ae
          /\ own_resp' = OwnAnswer(ae)
          /\ Apply(HandleApiException(ae, CurrentLastCall, wire,
                                      transport_calls))
    /\ UNCHANGED <<mon_vars, base_uri, api_version, default_headers, call,
                   app_vars>>

\* the transport fails to connect: its exception is not an ApiException and
\* no activation catches it
TransportFails ==
    /\ req_pc = "sent"
    /\ resp' = [kind |-> "TransportError"]
    /\ own_resp' = OwnAnswer([kind |-> "TransportError"])
    /\ Apply(Raise(CurrentLastCall, wire, transport_calls,
                   [type |-> "TransportError"]))
    /\ UNCHANGED <<mon_vars, base_uri, api_version, default_headers, call,
                   app_vars>>

InitArgs ==
    [entry |-> "none", task |-> NoneTask, timeout |-> DEFAULT_TIMEOUT_SEC,
     poll_frequency |-> DEFAULT_POLL_SEC, fail_on_statuses |-> FailNone,
     expected_target_statuses |-> <<>>, callback |-> FALSE]

MonIdle ==
    /\ mon_pc = "idle"
    /\ mon_args = InitArgs
    /\ start_time = 0
    /\ now = 0
    /\ fetched = <<>>
    /\ cb_calls = 0
    /\ mon_result = NoneTask
    /\ mon_raised = NoExc

(***************************************************************************)
(* The environments the pipeline is checked in: the application's calls    *)
(* and the server's answers.                                               *)
(***************************************************************************)
Hosts == {<<"h">>, <<"a", "p", "i", ".", "h">>, <<"h", "t", "t", "p", ":", "/", "/", "h", "/">>}
ApiVersions == {None, "37.0"}
AuthTokens == {"Bearer t"}
HeaderParamChoices == {NoneObj, [Authorization |-> "Basic b"]}
ResponseTypes == {None, "TaskType", "EntityType", "Role"}
Entries == {"get_resource", "post_resource", "post_resource_json",
            "delete_resource"}

\* the hrefs an application passes: built by get_rest_uri, built by
\* get_cloudapi_uri, or written out
Hrefs ==
    {[href |-> GetRestUri(<<"/", "x">>), built_by |-> "get_rest_uri"],
     [href |-> GetCloudapiUri(<<"/", "x">>), built_by |-> "get_cloudapi_uri"],
     [href |-> base_uri \o <<"/", "x">>, built_by |-> "literal"]}
ValidHrefs == {h \in Hrefs : h.built_by # "literal"}

ServerTask ==
    [class |-> "TaskType", href |-> "https://h/api/task/2",
     operation |-> "op", status |-> RUNNING, error |-> None]
ListedTask ==
    [class |-> "TaskType", href |-> "https://h/api/task/3",
     operation |-> "op", status |-> QUEUED, error |-> None]
BodyLink == [NewLink EXCEPT ![<<"h", "r", "e", "f">>] = <<"/", "b">>, ![<<"r", "e", "l">>] = <<"e", "d", "i", "t">>]

\* the objects a 2xx body decodes to, by response type: a task; a legacy
\* entity, which has the attributes link and tasks; a cloud-API model, which
\* has neither
DataFor(response_type) ==
    CASE response_type = None -> {NoneObj}
      [] response_type = "TaskType" -> {ServerTask}
      [] response_type = "EntityType" ->
            {[class |-> "EntityType", link |-> l, tasks |-> t] :
                l \in {NoneList, List(<<BodyLink>>)},
                t \in {NoneList, List(<<>>), List(<<ListedTask>>)}}
      [] response_type = "Role" -> {[class |-> "Role"]}

LinkSpaced == <<"<", "/", "x", ">", ";", " ", "r", "e", "l", "=", "\"", "e", "d", "i", "t", "\"", ";", " ", "m", "o", "d", "e", "l", "=", "\"", "R", "o", "l", "e", "\"">>
LinkCompact == <<"<", "/", "y", ">", ";", "r", "e", "l", "=", "\"", "r", "e", "m", "o", "v", "e", "\"", ";", "m", "o", "d", "e", "l", "=", "\"", "R", "o", "l", "e", "\"">>
LinkLists == {<<>>, <<LinkSpaced>>, <<LinkCompact>>,
              <<LinkCompact, LinkSpaced>>}
Locations == {Absent, Present(<<"h", "t", "t", "p", "s", ":", "/", "/", "h", "/", "a", "p", "i", "/", "t", "a", "s", "k", "/", "2">>),
              Present(<<"h", "t", "t", "p", "s", ":", "/", "/", "h", "/", "c", "l", "o", "u", "d", "a", "p", "i", "/", "t">>)}
RequestIds == {None, "req-1"}

\* the response type of the activation inside the transport
TopResponseType == stack[Len(stack)].args.response_type

PlainResponses ==
    {Response(200, Headers("req-1", Absent, <<>>), d) :
        d \in DataFor(TopResponseType)}
LinkResponses ==
    {Response(200, Headers("req-1", loc, links), d) :
        loc \in Locations, links \in LinkLists,
        d \in DataFor(TopResponseType)}

ErrorStatuses == {400, 401, 403, 404, 405, 406, 408, 409, 415, 416, 500,
                  503, 999}
ErrorObjects ==
    {[message |-> "x", minorErrorCode |-> "NOT_FOUND"],
     [message |-> "y", minorErrorCode |-> "BAD", majorErrorCode |-> "400",
      stackTrace |-> "trace"],
     EmptyDict}
ErrorBodies == {BodyNone, BodyEmpty, BodyText, BodyJsonNull}
                   \cup {BodyJson(o) : o \in ErrorObjects}
PlainExceptions ==
    {ApiException(404, BodyJson([message |-> "x",
                                 minorErrorCode |-> "NOT_FOUND"]),
                  Headers("req-1", Absent, <<>>))}
ErrorExceptions ==
    {ApiException(s, b, Headers(id, Absent, <<>>)) :
        s \in ErrorStatuses, b \in ErrorBodies, id \in RequestIds}

\* find_link was not called
NoFind == [called |-> FALSE]

\* neither set_credentials nor logout was called
NoOp == [name |-> "none", phase |-> "ended", exc |-> NoExc]

\* VcdClient.__init__ and ApiClient.__init__
ClientInit(hosts, versions) ==
    /\ base_uri \in {PrepareBaseUri(h) : h \in hosts}
    /\ api_version \in versions
    /\ default_headers = EmptyDict
    /\ last_status = NoStatus
    /\ last_headers = NoneObj
    /\ last_links = NoneObj
    /\ last_task = NoneTask

\* Python's None among the values that are serialized
PyNone == [kind |-> "none"]

\* no object has been serialized
SerIdle ==
    /\ ser_pc = "idle"
    /\ ser_obj = PyNone
    /\ ser_out = PyNone
    /\ ser_back = PyNone
    /\ ser_type = <<>>

\* no concurrent caller
NoThreads == <<>>

ReqIdle ==
    /\ req_pc = "idle"
    /\ call = NoneObj
    /\ stack = <<>>
    /\ wire = NoWire
    /\ transport_calls = 0
    /\ resp = NoResp
    /\ own_resp = NoResp
    /\ req_result = NoneObj
    /\ req_raised = NoExc
    /\ found = NoFind
    /\ session = NoneObj
    /\ op = NoOp
    /\ granted = NoneObj
    /\ threads = NoThreads
    /\ log = <<>>

\* the polling loop, on a client that holds the task of its last request
InitTask ==
    /\ MonIdle
    /\ ReqIdle
    /\ SerIdle
    /\ base_uri = PrepareBaseUri(<<"h">>)
    /\ api_version = None
    /\ default_headers = EmptyDict
    /\ last_status = NoStatus
    /\ last_headers = NoneObj
    /\ last_links = NoneObj
    /\ last_task \in {NoneTask, ArgTask("op"), ArgTask(None)}

NextTask ==
    \/ WaitForStatus
    \/ WaitForSuccess
    \/ WaitForLastTask
    \/ Poll
    \/ PollFails
    \/ Sleep

SpecTask == InitTask /\ [][NextTask]_vars

\* one request, over every way of calling it
InitReq ==
    /\ MonIdle
    /\ ReqIdle
    /\ SerIdle
    /\ ClientInit(Hosts, ApiVersions)

NextReq ==
    \/ \E token \in AuthTokens : SetDefaultHeader(HEADER_AUTHORIZATION, token)
    \/ ClearDefaultHeader(HEADER_AUTHORIZATION)
    \/ ApiCall(Hrefs, HeaderParamChoices, ResponseTypes, Entries)
    \/ TransportReturns(PlainResponses)
    \/ TransportRaises(PlainExceptions)
    \/ TransportFails

SpecReq == InitReq /\ [][NextReq]_vars

\* one request, over every non-2xx answer
InitErr ==
    /\ MonIdle
    /\ ReqIdle
    /\ SerIdle
    /\ ClientInit({<<"h">>}, {None})

NextErr ==
    \/ ApiCall(ValidHrefs, {NoneObj}, {None, "TaskType"}, Entries)
    \/ TransportReturns(PlainResponses)
    \/ TransportRaises(ErrorExceptions)
    \/ TransportFails

SpecErr == InitErr /\ [][NextErr]_vars

\* one request, over every 2xx answer and the follow-up GETs it leads to
InitLink ==
    /\ MonIdle
    /\ ReqIdle
    /\ SerIdle
    /\ ClientInit({<<"h">>}, {None})

NextLink ==
    \/ ApiCall(ValidHrefs, {NoneObj}, ResponseTypes, {"get_resource"})
    \/ TransportReturns(LinkResponses)
    \/ TransportRaises(PlainExceptions)
    \/ TransportFails

SpecLink == InitLink /\ [][NextLink]_vars

(***************************************************************************)
(* Claims about TaskMonitor, checked under SpecTask.                       *)
(***************************************************************************)
CeilDiv(a, b) == (a + b - 1) \div b

\* the status of a fetched task is, whatever its letter case, one of `list`
StatusIn(t, list) ==
    /\ t.status # NoneStr
    /\ \E i \in 1..Len(list) : Lower(t.status) = Lower(list[i])

InTarget(t) == StatusIn(t, mon_args.expected_target_statuses)
InFail(t) == StatusIn(t, mon_args.fail_on_statuses.v)
LastFetched == fetched[Len(fetched)]

\* every task fetched so far has a status, which is neither a target nor a
\* fail status
Stuck ==
    \A i \in 1..Len(fetched) :
        /\ fetched[i].status # NoneStr
        /\ ~InTarget(fetched[i])
        /\ ~InFail(fetched[i])

\* C1: a wait on a task that stays in a non-target, non-fail status does not
\* outlive its timeout: it is never found sleeping once more than `timeout`
\* seconds have elapsed since the call, and it fetches the task at most
\* ceil(timeout / poll_frequency) + 1 times.
C1_StuckTaskTimesOut ==
    (mon_pc \in {"poll", "sleep"} /\ Stuck) =>
        /\ Len(fetched) <= CeilDiv(mon_args.timeout, mon_args.poll_frequency) + 1
        /\ mon_pc = "sleep" => now - start_time <= mon_args.timeout

\* a wait that runs with the default fail set and the default target
DefaultWait ==
    \/ mon_args.entry \in {"wait_for_success", "wait_for_last_task"}
    \/ /\ mon_args.entry = "wait_for_status"
       /\ mon_args.fail_on_statuses = FailList(DefaultFailOnStatuses)
       /\ mon_args.expected_target_statuses = DefaultTargetStatuses

\* C2: under the default fail set, whichever of wait_for_status (default
\* arguments), wait_for_success and wait_for_last_task is used, a task
\* fetched in status error, canceled or aborted makes the wait raise
\* VcdTaskException carrying that task's error.
C2_DefaultFailSetRaises ==
    (/\ Len(fetched) > 0
     /\ DefaultWait
     /\ StatusIn(LastFetched, <<ERROR, CANCELED, ABORTED>>)) =>
        /\ mon_pc = "raised"
        /\ mon_raised = [type |-> "VcdTaskException",
                         error_message |-> Lower(LastFetched.status),
                         vcd_error |-> LastFetched.error]

\* C3: a fetched task whose status is in the fail set and not in the target
\* set is the last task fetched, and the wait has raised VcdTaskException
\* with that task's error: no sleep and no fetch follows it.
C3_FailStatusRaisesAtOnce ==
    \A i \in 1..Len(fetched) :
        (InFail(fetched[i]) /\ ~InTarget(fetched[i])) =>
            /\ i = Len(fetched)
            /\ mon_pc = "raised"
            /\ mon_raised = [type |-> "VcdTaskException",
                             error_message |-> Lower(fetched[i].status),
                             vcd_error |-> fetched[i].error]

\* C3's case: the second poll observes `Error`, with an error payload
C3_Witness ==
    /\ mon_pc = "raised"
    /\ mon_raised.type = "VcdTaskException"
    /\ Len(fetched) = 2
    /\ fetched[1].status = QUEUED
    /\ fetched[2].status = WireErrorCap
    /\ fetched[2].error = "err1"

\* C4: a fetched task whose status is a target status is the last task
\* fetched and is the task the wait returned without raising; a wait that
\* returned a task returned one it fetched in a target status.
C4_ReturnsFirstTargetTask ==
    /\ \A i \in 1..Len(fetched) :
          InTarget(fetched[i]) =>
              /\ i = Len(fetched)
              /\ mon_pc = "returned"
              /\ mon_raised = NoExc
              /\ mon_result = fetched[i]
    /\ (mon_pc = "returned" /\ mon_args.task # NoneTask) =>
          /\ Len(fetched) > 0
          /\ InTarget(LastFetched)

\* C4's case: queued, running, success on three successive polls
C4_Witness ==
    /\ mon_pc = "returned"
    /\ Len(fetched) = 3
    /\ fetched[1].status = QUEUED
    /\ fetched[2].status = RUNNING
    /\ fetched[3].status = SUCCESS
    /\ mon_result = fetched[3]

(***************************************************************************)
(* Claims about the request pipeline.                                      *)
(***************************************************************************)
\* the activation of the application's own call is inside the transport
OwnRequestSent == req_pc = "sent" /\ Len(stack) = 1

\* C5 (under SpecReq): every header the call passed per call reaches the
\* transport with the per-call value, also when the client stores a default
\* header of the same name.
C5_PerCallHeaderWins ==
    (OwnRequestSent /\ call.args.header_params # NoneObj) =>
        \A k \in DOMAIN call.args.header_params :
            /\ k \in DOMAIN wire.headers
            /\ wire.headers[k] = call.args.header_params[k]

\* the exception class the claim gives each status
ExceptionOfStatus(status) ==
    CASE status = 400 -> "BadRequestException"
      [] status = 401 -> "UnauthorizedException"
      [] status = 403 -> "AccessForbiddenException"
      [] status = 404 -> "NotFoundException"
      [] status = 405 -> "MethodNotAllowedException"
      [] status = 406 -> "NotAcceptableException"
      [] status = 408 -> "RequestTimeoutException"
      [] status = 409 -> "ConflictException"
      [] status = 415 -> "UnsupportedMediaTypeException"
      [] status = 416 -> "InvalidContentLengthException"
      [] status = 500 -> "InternalServerException"
      [] OTHER -> "UnknownApiException"

\* the call ended on a non-2xx answer of the transport
EndedOnApiException == req_pc = "done" /\ resp.kind = "ApiException"

\* C6 (under SpecErr): a non-2xx answer without a structured body (no body,
\* an empty one, or text that is not JSON) still ends the call with the
\* typed exception of its status, carrying the status code and the request
\* id header.
C6_NoBodyErrorIsTyped ==
    (EndedOnApiException /\ resp.body.kind \in {"None", "empty", "text"}) =>
        /\ req_raised.type = ExceptionOfStatus(resp.status)
        /\ req_raised.status_code = resp.status
        /\ req_raised.request_id = resp.headers.request_id

\* the value of a key of a JSON object, None when the key is absent
JsonGet(obj, key) == IF key \in DOMAIN obj THEN obj[key] ELSE None

\* C7 (under SpecErr): a non-2xx answer with a JSON object body ends the
\* call with the exception class of its status alone (the catch-all
\* UnknownApiException for a status outside the table), exposing that
\* status, the request id header and the server error's message and minor
\* error code.
C7_StatusSelectsException ==
    (EndedOnApiException /\ resp.body.kind = "object") =>
        /\ req_raised.type = ExceptionOfStatus(resp.status)
        /\ req_raised.status_code = resp.status
        /\ req_raised.request_id = resp.headers.request_id
        /\ req_raised.vcd_error.message = JsonGet(resp.body.obj, "message")
        /\ req_raised.vcd_error.minor_error_code =
               JsonGet(resp.body.obj, "minorErrorCode")
        /\ last_status = resp.status

\* C7's case: 404 with {"minorErrorCode": "NOT_FOUND", "message": "x"}
C7_Witness ==
    /\ EndedOnApiException
    /\ resp.status = 404
    /\ resp.body = BodyJson([message |-> "x", minorErrorCode |-> "NOT_FOUND"])
    /\ req_raised.type = "NotFoundException"
    /\ req_raised.status_code = 404
    /\ req_raised.vcd_error.message = "x"

\* the path of the call holds neither /api nor /cloudapi
NeitherPrefix(url) == ~Contains(API, url) /\ ~Contains(CLOUDAPI, url)

\* C8 (under SpecReq): a call whose path holds neither prefix ends with
\* ClientException, and the transport was not invoked for it.
C8_InvalidUriIsClientException ==
    (req_pc = "done" /\ NeitherPrefix(call.args.resource_path)) =>
        /\ req_raised.type = "ClientException"
        /\ transport_calls = 0
        /\ wire = NoWire

\* C9 (under SpecReq): whatever the host, a URL built by get_cloudapi_uri is
\* handled as a cloud-API request and a URL built by get_rest_uri as a
\* legacy-API request.
C9_CategoryFollowsPrefix ==
    OwnRequestSent =>
        /\ call.built_by = "get_cloudapi_uri" => ~stack[1].is_api_uri
        /\ call.built_by = "get_rest_uri" => stack[1].is_api_uri

\* the Link a header of the claim's form stands for: href, rel, model
LinkOf(header) ==
    CASE header = LinkSpaced -> <<<<"/", "x">>, <<"e", "d", "i", "t">>, <<"R", "o", "l", "e">>>>
      [] header = LinkCompact -> <<<<"/", "y">>, <<"r", "e", "m", "o", "v", "e">>, <<"R", "o", "l", "e">>>>

\* C10 (under SpecLink): after a cloud-API request answered 2xx without a
\* follow-up GET, the last links hold one Link per Link header, in order,
\* with the header's href between the angle brackets and its unquoted rel
\* and model.
C10_LinkHeadersParsed ==
    (/\ req_pc = "done"
     /\ req_raised = NoExc
     /\ resp.kind = "response"
     /\ transport_calls = 1
     /\ ~IsApiUri(call.args.resource_path).value) =>
        /\ ~last_links.isNone
        /\ Len(last_links.v) = Len(resp.headers.link)
        /\ \A i \in 1..Len(resp.headers.link) :
              /\ last_links.v[i][<<"h", "r", "e", "f">>] = LinkOf(resp.headers.link[i])[1]
              /\ last_links.v[i][<<"r", "e", "l">>] = LinkOf(resp.headers.link[i])[2]
              /\ last_links.v[i][<<"m", "o", "d", "e", "l">>] = LinkOf(resp.headers.link[i])[3]

(***************************************************************************)
(* vcd_client.py: what the application calls between its requests          *)
(***************************************************************************)
Whitespace == {" ", "\t", "\n"}

\* str.split() without a separator: the pieces between runs of white space;
\* word is the piece being read
RECURSIVE SplitWs(_, _)
SplitWs(s, word) ==
    IF s = <<>> THEN (IF word = <<>> THEN <<>> ELSE <<word>>)
    ELSE IF Head(s) \in Whitespace
    THEN (IF word = <<>> THEN <<>> ELSE <<word>>) \o SplitWs(Tail(s), <<>>)
    ELSE SplitWs(Tail(s), Append(word, Head(s)))

\* the elements of a list
Elements(l) == {l[i] : i \in 1..Len(l)}

\* find_link lines 326-330: does the link hold every search attribute, read
\* from entry i of search_attrs on; exc when getattr finds no such attribute
RECURSIVE MatchAttrs(_, _, _)
MatchAttrs(link, search_attrs, i) ==
    IF i > Len(search_attrs) THEN [exc |-> "none", value |-> TRUE]
    ELSE IF ~HasAttr(link, search_attrs[i][1])
    THEN [exc |-> "AttributeError", value |-> FALSE]
    ELSE IF search_attrs[i][2] # link[search_attrs[i][1]]
    THEN [exc |-> "none", value |-> FALSE]
    ELSE MatchAttrs(link, search_attrs, i + 1)

\* find_link lines 324-333, from the link at index i on: index is the place
\* of the returned link in self._links, 0 when None is returned
RECURSIVE FindLinkFrom(_, _, _, _)
FindLinkFrom(links, rel, search_attrs, i) ==
    IF i > Len(links) THEN [exc |-> "none", index |-> 0]
    ELSE IF links[i][<<"r", "e", "l">>] = NoneStr
    THEN \* None has no split
         [exc |-> "AttributeError", index |-> 0]
    ELSE IF rel \in Elements(SplitWs(links[i][<<"r", "e", "l">>], <<>>))
    THEN LET m == MatchAttrs(links[i], search_attrs, 1) IN
         IF m.exc # "none" THEN [exc |-> m.exc, index |-> 0]
         ELSE IF m.value THEN [exc |-> "none", index |-> i]
         ELSE FindLinkFrom(links, rel, search_attrs, i + 1)
    ELSE FindLinkFrom(links, rel, search_attrs, i + 1)

\* VcdClient.find_link; iterating over None raises TypeError
FindLink(links, rel, search_attrs) ==
    IF links.isNone THEN [exc |-> "TypeError", index |-> 0]
    ELSE FindLinkFrom(links.v, rel, search_attrs, 1)

\* the application calls find_link after a request ended
FindLinkCall(rels, attr_choices) ==
    /\ req_pc = "done"
    /\ \E rel \in rels, search_attrs \in attr_choices :
          LET r == FindLink(last_links, rel, search_attrs) IN
          found' = [called |-> TRUE, rel |-> rel,
                    search_attrs |-> search_attrs, exc |-> r.exc,
                    index |-> r.index]
    /\ UNCHANGED <<mon_vars, client_vars, last_task, req_vars, session, op,
                   granted, ser_vars, threads,
                   log>>

\* the application goes on to its next request: the client keeps its fields
NextCall ==
    /\ req_pc = "done"
    /\ op.phase = "ended"
    /\ op' = NoOp
    /\ req_pc' = "idle"
    /\ call' = NoneObj
    /\ stack' = <<>>
    /\ wire' = NoWire
    /\ transport_calls' = 0
    /\ resp' = NoResp
    /\ own_resp' = NoResp
    /\ req_result' = NoneObj
    /\ req_raised' = NoExc
    /\ found' = NoFind
    /\ UNCHANGED <<mon_vars, client_vars, last_task, session, granted,
                   ser_vars, threads,
                   log>>

Rels == {<<"e", "d", "i", "t">>, <<"r", "e", "m", "o", "v", "e">>}
SearchAttrChoices ==
    {<<>>, << <<<<"m", "o", "d", "e", "l">>, <<"R", "o", "l", "e">>>> >>, << <<<<"m", "o", "d", "e", "l">>, <<"U", "s", "e", "r">>>> >>}
LinkTwoRels == <<"<", "/", "z", ">", ";", "r", "e", "l", "=", "\"", "a", "d", "d", " ", "e", "d", "i", "t", "\"", ";", "m", "o", "d", "e", "l", "=", "\"", "R", "o", "l", "e", "\"">>
CallLinkLists == {<<>>, <<LinkSpaced>>, <<LinkCompact, LinkTwoRels>>}
CallResponses ==
    {Response(200, Headers("req-1", loc, links), d) :
        loc \in {Absent, Present(<<"h", "t", "t", "p", "s", ":", "/", "/", "h", "/", "a", "p", "i", "/", "t", "a", "s", "k", "/", "2">>)},
        links \in CallLinkLists, d \in DataFor(TopResponseType)}

\* requests one after another, with find_link between them
InitCalls ==
    /\ MonIdle
    /\ ReqIdle
    /\ SerIdle
    /\ ClientInit({<<"h">>}, {None})

NextCalls ==
    \/ ApiCall(Hrefs, {NoneObj}, {None, "EntityType"}, {"get_resource"})
    \/ TransportReturns(CallResponses)
    \/ TransportRaises(PlainExceptions)
    \/ TransportFails
    \/ FindLinkCall(Rels, SearchAttrChoices)
    \/ NextCall

SpecCalls == InitCalls /\ [][NextCalls]_vars

(***************************************************************************)
(* Claims about the last-call fields, checked under SpecCalls.             *)
(***************************************************************************)
\* does the link at index i of links match: rel among its rel tokens, and
\* every search attribute equal
LinkMatches(link, rel, search_attrs) ==
    /\ link[<<"r", "e", "l">>] # NoneStr
    /\ rel \in Elements(SplitWs(link[<<"r", "e", "l">>], <<>>))
    /\ \A j \in 1..Len(search_attrs) :
          /\ search_attrs[j][1] \in DOMAIN link
          /\ link[search_attrs[j][1]] = search_attrs[j][2]

\* the index of the first matching link of the last call, 0 when none is
FirstMatch(rel, search_attrs) ==
    IF last_links.isNone THEN 0
    ELSE LET hits == {i \in 1..Len(last_links.v) :
                         LinkMatches(last_links.v[i], rel, search_attrs)}
         IN  IF hits = {} THEN 0
             ELSE CHOOSE i \in hits : \A j \in hits : i <= j

\* C11 (under SpecCalls): after a request, successful or failed, find_link
\* raises nothing and returns the first link of the last call that matches
\* rel and search_attrs, None when no link does.
C11_FindLinkReturnsFirstMatch ==
    found.called =>
        /\ found.exc = "none"
        /\ found.index = FirstMatch(found.rel, found.search_attrs)

\* the request ended and returned to the application
ReturnedToCaller == req_pc = "done" /\ req_raised = NoExc

\* C12 (under SpecLink): when a request returns, the last status, headers
\* and links are those of the answer to the caller's own request, also when
\* a follow-up GET fetched the task.
C12_LastFieldsAreOfOwnRequest ==
    ReturnedToCaller =>
        /\ last_status = own_resp.status
        /\ last_headers = own_resp.headers
        /\ last_links = StoreLinks(IsApiUri(call.args.resource_path).value,
                                   req_result, own_resp.headers).links

\* this step ends a request with an exception
RequestFails == req_pc # "done" /\ req_pc' = "done" /\ req_raised' # NoExc

\* C13 (under SpecCalls): a request that fails leaves no last headers, links
\* or task of an earlier request, and no earlier status: each field is None
\* or was recorded from this request's own answer.
C13_FailedRequestOverwritesLastFields ==
    [][RequestFails =>
          /\ last_headers' = NoneObj \/ resp'.kind = "response"
          /\ last_links' = NoneObj \/ resp'.kind = "response"
          /\ last_task' = NoneTask \/ resp'.kind = "response"
          /\ \/ last_status' = NoStatus
             \/ /\ resp'.kind \in {"response", "ApiException"}
                /\ last_status' = resp'.status]_vars

\* the caller's request was a legacy-API one
OwnIsApiUri == IsApiUri(call.args.resource_path).value

\* the decoded body lists at least one task
ListsTasks(body) ==
    HasAttr(body, "tasks") /\ ~body.tasks.isNone /\ Len(body.tasks.v) > 0

\* C14 (under SpecLink): when a request returns, the last task is the body
\* when the body is a task, and then no follow-up GET was made; else the
\* first listed task of a legacy-API body; else, for a cloud-API answer
\* with a Location header, the task the one follow-up GET fetched; else
\* None.
C14_LastTaskByPriority ==
    ReturnedToCaller =>
        IF IsTask(req_result)
        THEN last_task = req_result /\ transport_calls = 1
        ELSE IF OwnIsApiUri /\ ListsTasks(req_result)
        THEN last_task = req_result.tasks.v[1] /\ transport_calls = 1
        ELSE IF ~OwnIsApiUri /\ ~own_resp.headers.location.isNone
        THEN last_task = resp.data /\ transport_calls = 2
        ELSE last_task = NoneTask /\ transport_calls = 1

(***************************************************************************)
(* vcd_client.py: set_credentials and logout                               *)
(***************************************************************************)
HEADER_X_VCLOUD_TOKEN_TYPE == "token_type"
HEADER_X_VCLOUD_ACCESS_TOKEN == "access_token"
BEARER_TOKEN_TYPE == "Bearer"

\* ''.join(chars): the text of a character sequence
RECURSIVE Join(_)
Join(chars) == IF chars = <<>> THEN "" ELSE Head(chars) \o Join(Tail(chars))

\* headers.get(name)
HeaderGet(headers, name) ==
    IF name \in DOMAIN headers THEN headers[name] ELSE None

BasicLoginCredentials(user, org, password) ==
    [kind |-> "basic", user |-> user, org |-> org, password |-> password]
BearerLoginCredentials(bearer_token) ==
    [kind |-> "bearer", bearer_token |-> bearer_token]

\* VcdClient._is_provider
IsProvider(org) == Lower(org) = <<"s", "y", "s", "t", "e", "m">>

\* _login lines 231-233: the Basic value urllib3 builds; its base64 text is
\* kept as the text it encodes
BasicAuthToken(creds) ==
    "Basic base64(" \o creds.user \o "@" \o Join(creds.org) \o ":"
        \o creds.password \o ")"

\* the access token stored without its type
SessionTokenBare(token_type, access_token) == access_token

\* _store_session_token: '%s %s' % (token_type, access_token)
SessionToken(token_type, access_token) ==
    token_type \o " " \o access_token

\* the request of _login (lines 226-237) or of _validate_session (244-250)
LoginArgs(creds) ==
    IF creds.kind = "basic"
    THEN PostResourceArgs(
             GetCloudapiUri(IF IsProvider(creds.org)
                            THEN <<"/", "1", ".", "0", ".", "0", "/", "s", "e", "s", "s", "i", "o", "n", "s", "/", "p", "r", "o", "v", "i", "d", "e", "r">>
                            ELSE <<"/", "1", ".", "0", ".", "0", "/", "s", "e", "s", "s", "i", "o", "n", "s">>),
             "Session", None, None,
             DictSet(EmptyDict, HEADER_AUTHORIZATION, BasicAuthToken(creds)))
    ELSE GetResourceArgs(
             GetCloudapiUri(<<"/", "1", ".", "0", ".", "0", "/", "s", "e", "s", "s", "i", "o", "n", "s">>), "Sessions",
             DictSet(EmptyDict, HEADER_AUTHORIZATION,
                     "Bearer " \o creds.bearer_token))

\* a call of the client starts a request of its own
StartRequest(entry, args) ==
    /\ call' = [entry |-> entry, args |-> args, built_by |-> entry]
    /\ resp' = NoResp
    /\ own_resp' = NoResp
    /\ Apply(BeginRequest(args, <<>>, CurrentLastCall, NoWire, 0))

\* where a set_credentials or logout call is
Running(name, phase, creds) ==
    [name |-> name, phase |-> phase, creds |-> creds, exc |-> NoExc]
Ended(exc) == [op EXCEPT !.phase = "ended", !.exc = exc]

\* set_credentials lines 183-189, to the first request it sends: the
\* versions request when no API version is set, else the login request
SetCredentials(creds_choices) ==
    /\ req_pc = "idle"
    /\ op.phase = "ended"
    /\ \E creds \in creds_choices :
          IF api_version = None
          THEN /\ StartRequest("get_supported_versions",
                               GetResourceArgs(GetRestUri(<<"/", "v", "e", "r", "s", "i", "o", "n", "s">>),
                                               "SupportedVersionsType",
                                               NoneObj))
               /\ op' = Running("set_credentials", "versions", creds)
          ELSE /\ StartRequest("login", LoginArgs(creds))
               /\ op' = Running("set_credentials", "login", creds)
    /\ UNCHANGED <<mon_vars, base_uri, api_version, default_headers, found,
                   session, granted, ser_vars, threads,
                   log>>

\* characters of a version, in the order python compares them (code points)
CharRank ==
    [c \in {".", "0", "1", "2", "3", "4", "5", "6", "7", "8", "9"} |->
        CASE c = "." -> 46 [] c = "0" -> 48 [] c = "1" -> 49 [] c = "2" -> 50
          [] c = "3" -> 51 [] c = "4" -> 52 [] c = "5" -> 53 [] c = "6" -> 54
          [] c = "7" -> 55 [] c = "8" -> 56 [] c = "9" -> 57]

\* a < b for two str values
RECURSIVE StrLess(_, _)
StrLess(a, b) ==
    IF b = <<>> THEN FALSE
    ELSE IF a = <<>> THEN TRUE
    ELSE IF Head(a) # Head(b) THEN CharRank[Head(a)] < CharRank[Head(b)]
    ELSE StrLess(Tail(a), Tail(b))

\* set_highest_supported_version lines 208-214: the last element of the
\* sorted list of the distinct version strings; exc when the list is empty
HighestSupportedVersion(version_info) ==
    LET active_versions ==
            {version_info[i].version : i \in 1..Len(version_info)}
    IN  IF active_versions = {} THEN [exc |-> "IndexError", value |-> <<>>]
        ELSE [exc |-> "none",
              value |-> CHOOSE v \in active_versions :
                           \A w \in active_versions : w = v \/ StrLess(w, v)]

\* set_highest_supported_version after the versions request ended
VersionsAnswered ==
    /\ req_pc = "done"
    /\ op.name = "set_credentials" /\ op.phase = "versions"
    /\ IF req_raised # NoExc
       THEN op' = Ended(req_raised) /\ UNCHANGED api_version
       ELSE LET highest == HighestSupportedVersion(req_result.version_info)
            IN  IF highest.exc # "none"
                THEN /\ op' = Ended([type |-> highest.exc])
                     /\ UNCHANGED api_version
                ELSE /\ api_version' = Join(highest.value)
                     /\ op' = [op EXCEPT !.phase = "negotiated"]
    /\ UNCHANGED <<mon_vars, base_uri, default_headers, last_status,
                   last_headers, last_links, last_task, req_vars, found,
                   session, granted, ser_vars, threads,
                   log>>

\* set_credentials lines 186-189 after the version was negotiated
LoginAfterNegotiation ==
    /\ op.name = "set_credentials" /\ op.phase = "negotiated"
    /\ StartRequest("login", LoginArgs(op.creds))
    /\ op' = [op EXCEPT !.phase = "login"]
    /\ UNCHANGED <<mon_vars, base_uri, api_version, default_headers, found,
                   session, granted, ser_vars, threads,
                   log>>

\* _login lines 235-241 or _validate_session lines 251-256 after the login
\* request ended, and set_credentials line 191, which reads the session's
\* user and org
LoginAnswered ==
    /\ req_pc = "done"
    /\ op.name = "set_credentials" /\ op.phase = "login"
    /\ IF req_raised # NoExc
       THEN /\ op' = Ended(req_raised)
            /\ UNCHANGED <<session, default_headers, granted>>
       ELSE IF op.creds.kind = "basic"
       THEN LET token == SessionToken(
                    HeaderGet(last_headers, HEADER_X_VCLOUD_TOKEN_TYPE),
                    HeaderGet(last_headers, HEADER_X_VCLOUD_ACCESS_TOKEN))
            IN  /\ session' = req_result
                /\ default_headers' =
                       DictSet(default_headers, HEADER_AUTHORIZATION, token)
                /\ granted' =
                       [token_type |->
                            HeaderGet(own_resp.headers,
                                      HEADER_X_VCLOUD_TOKEN_TYPE),
                        access_token |->
                            HeaderGet(own_resp.headers,
                                      HEADER_X_VCLOUD_ACCESS_TOKEN)]
                /\ op' = Ended(NoExc)
       ELSE IF Len(req_result.values) > 0
       THEN LET token == SessionToken(BEARER_TOKEN_TYPE,
                                      op.creds.bearer_token)
            IN  /\ session' = req_result.values[1]
                /\ default_headers' =
                       DictSet(default_headers, HEADER_AUTHORIZATION, token)
                /\ granted' = [token_type |-> "Bearer",
                               access_token |-> op.creds.bearer_token]
                /\ op' = Ended(NoExc)
       ELSE \* no session came back: get_user reads self._session.user
            /\ op' = Ended(IF session = NoneObj
                           THEN [type |-> "AttributeError"] ELSE NoExc)
            /\ UNCHANGED <<session, default_headers, granted>>
    /\ UNCHANGED <<mon_vars, base_uri, api_version, last_status,
                   last_headers, last_links, last_task, req_vars, found,
                   ser_vars, threads,
                   log>>

\* logout lines 268-270, to the DELETE it sends; self._session.id raises
\* when there is no session
Logout ==
    /\ req_pc = "idle"
    /\ op.phase = "ended"
    /\ IF session = NoneObj
       THEN /\ op' = [Running("logout", "ended", NoneObj)
                         EXCEPT !.exc = [type |-> "AttributeError"]]
            /\ UNCHANGED <<last_status, last_headers, last_links, last_task,
                           req_vars>>
       ELSE /\ StartRequest("logout",
                   DeleteResourceArgs(
                       GetCloudapiUri(<<"/", "1", ".", "0", ".", "0", "/", "s", "e", "s", "s", "i", "o", "n", "s", "/">> \o session.id),
                       None, NoneObj))
            /\ op' = Running("logout", "delete", NoneObj)
    /\ UNCHANGED <<mon_vars, base_uri, api_version, default_headers, found,
                   session, granted, ser_vars, threads,
                   log>>

\* logout lines 271-274 after the DELETE ended; an exception of the DELETE
\* leaves logout at line 270
LogoutAnswered ==
    /\ req_pc = "done"
    /\ op.name = "logout" /\ op.phase = "delete"
    /\ IF req_raised # NoExc
       THEN /\ op' = Ended(req_raised)
            /\ UNCHANGED <<session, default_headers, granted>>
       ELSE IF HEADER_AUTHORIZATION \notin DOMAIN default_headers
       THEN \* clear_default_header: del of a missing key
            /\ op' = Ended([type |-> "KeyError"])
            /\ UNCHANGED <<session, default_headers, granted>>
       ELSE /\ default_headers' = DictDel(default_headers,
                                          HEADER_AUTHORIZATION)
            /\ session' = NoneObj
            /\ granted' = NoneObj
            /\ op' = Ended(NoExc)
    /\ UNCHANGED <<mon_vars, base_uri, api_version, last_status,
                   last_headers, last_links, last_task, req_vars, found,
                   ser_vars, threads,
                   log>>

\* a request of the application, between set_credentials and logout calls
AppRequest(hrefs, header_params, response_types, entries) ==
    /\ op.phase = "ended"
    /\ ApiCall(hrefs, header_params, response_types, entries)

(***************************************************************************)
(* The environment of set_credentials and logout.                          *)
(***************************************************************************)
CredsChoices ==
    {BasicLoginCredentials("u", <<"S", "y", "s", "t", "e", "m">>, "p"),
     BearerLoginCredentials("t2")}
SessionObject ==
    [class |-> "Session", id |-> <<"s", "i", "d">>, user |-> [name |-> "u"],
     org |-> [name |-> "System"]]
VersionLists ==
    {<<[version |-> <<"5", ".", "5">>], [version |-> <<"9", ".", "0">>], [version |-> <<"3", "7", ".", "0">>]>>,
     <<[version |-> <<"3", "7", ".", "0">>], [version |-> <<"3", "7", ".", "0">>]>>}
\* the headers of the answer to a Basic login
LoginHeaders(token_type, access_token) ==
    [request_id |-> "req-1", location |-> Absent, link |-> <<>>,
     token_type |-> token_type, access_token |-> access_token]
AuthResponses ==
    CASE TopResponseType = "SupportedVersionsType" ->
            {Response(200, Headers("req-1", Absent, <<>>),
                      [class |-> "SupportedVersionsType",
                       version_info |-> vs]) : vs \in VersionLists}
      [] TopResponseType = "Session" ->
            {Response(200, LoginHeaders("Bearer", "t1"), SessionObject)}
      [] TopResponseType = "Sessions" ->
            {Response(200, Headers("req-1", Absent, <<>>),
                      [class |-> "Sessions", values |-> vs]) :
                vs \in {<<>>, <<SessionObject>>}}
      [] OTHER -> {Response(200, Headers("req-1", Absent, <<>>), NoneObj)}
AuthExceptions ==
    {ApiException(401, BodyJson([message |-> "x"]),
                  Headers("req-1", Absent, <<>>))}

\* set_credentials, requests and logout, in any order
InitAuth ==
    /\ MonIdle
    /\ ReqIdle
    /\ SerIdle
    /\ ClientInit({<<"h">>}, ApiVersions)

NextAuth ==
    \/ SetCredentials(CredsChoices)
    \/ VersionsAnswered
    \/ LoginAfterNegotiation
    \/ LoginAnswered
    \/ Logout
    \/ LogoutAnswered
    \/ AppRequest(ValidHrefs, HeaderParamChoices, {None}, {"get_resource"})
    \/ TransportReturns(AuthResponses)
    \/ TransportRaises(AuthExceptions)
    \/ TransportFails
    \/ NextCall

SpecAuth == InitAuth /\ [][NextAuth]_vars

(***************************************************************************)
(* Claims about set_credentials and logout, checked under SpecAuth.        *)
(***************************************************************************)
\* C15 (under SpecAuth): when logout has ended, with or without an
\* exception, no Authorization default header is stored and the session is
\* None.
C15_LogoutClearsCredentials ==
    (op.name = "logout" /\ op.phase = "ended") =>
        /\ HEADER_AUTHORIZATION \notin DOMAIN default_headers
        /\ session = NoneObj

\* the per-call headers of the activation inside the transport
SentHeaderParams == stack[Len(stack)].args.header_params

\* C16 (under SpecAuth): a request sent while a login is in force carries
\* the Authorization header "<token-type> <token>" of that login; a request
\* sent when none is in force (before any login, or after a logout that
\* succeeded) finds no stored Authorization header, and carries only an
\* Authorization header it was given per call.
C16_RequestsCarryLoginToken ==
    req_pc = "sent" =>
        IF granted # NoneObj
        THEN /\ HEADER_AUTHORIZATION \in DOMAIN wire.headers
             /\ wire.headers[HEADER_AUTHORIZATION] =
                    granted.token_type \o " " \o granted.access_token
        ELSE /\ HEADER_AUTHORIZATION \notin DOMAIN default_headers
             /\ HEADER_AUTHORIZATION \in DOMAIN wire.headers =>
                    /\ SentHeaderParams # NoneObj
                    /\ HEADER_AUTHORIZATION \in DOMAIN SentHeaderParams
                    /\ wire.headers[HEADER_AUTHORIZATION] =
                           SentHeaderParams[HEADER_AUTHORIZATION]

\* C16's case: a request of the application sent after a Basic login
C16_Witness ==
    /\ req_pc = "sent"
    /\ call.entry = "get_resource"
    /\ granted = [token_type |-> "Bearer", access_token |-> "t1"]
    /\ wire.headers[HEADER_AUTHORIZATION] = "Bearer t1"

\* the number a text of digits writes
RECURSIVE DigitsValue(_, _)
DigitsValue(digits, acc) ==
    IF digits = <<>> THEN acc
    ELSE DigitsValue(Tail(digits), 10 * acc + (CharRank[Head(digits)] - 48))

\* a version "major.minor" as the pair of its numbers
VersionNumbers(version) ==
    LET parts == Split(version, ".")
    IN  <<DigitsValue(parts[1], 0), DigitsValue(parts[2], 0)>>

\* version a is numerically below version b
VersionBelow(a, b) ==
    LET x == VersionNumbers(a)
        y == VersionNumbers(b)
    IN  x[1] < y[1] \/ (x[1] = y[1] /\ x[2] < y[2])

\* the numerically highest of the versions the server reported
NumericallyHighest(version_info) ==
    LET reported == {version_info[i].version : i \in 1..Len(version_info)}
    IN  CHOOSE v \in reported :
            \A w \in reported : w = v \/ VersionBelow(w, v)

\* C17 (under SpecAuth): when set_credentials has negotiated the version
\* of a client built without one, the API version is the numerically
\* highest version the server reported.
C17_HighestVersionIsNumeric ==
    (op.name = "set_credentials" /\ op.phase = "negotiated") =>
        api_version = Join(NumericallyHighest(req_result.version_info))

\* C18 (under SpecReq): the request the transport gets for a call carries
\* the Accept header application/*+json when the URL was built by
\* get_rest_uri and application/json when it was built by get_cloudapi_uri,
\* followed by ;version=<v> exactly when the client has an API version v;
\* it is the first request of the call (none was sent to negotiate).
C18_AcceptFollowsCategoryAndVersion ==
    (OwnRequestSent /\ call.built_by \in {"get_rest_uri", "get_cloudapi_uri"})
        =>
        /\ HEADER_ACCEPT \in DOMAIN wire.headers
        /\ wire.headers[HEADER_ACCEPT] =
               (IF call.built_by = "get_rest_uri" THEN "application/*+json"
                ELSE "application/json")
               \o (IF api_version # None THEN ";version=" \o api_version
                   ELSE "")
        /\ transport_calls = 1

(***************************************************************************)
(* Serialization of model objects: api_client.py, sanitize_for_            *)
(* serialization and __deserialize.  A Python value is a record tagged by  *)
(* its kind; text is a sequence of characters, because isoformat, the date *)
(* parser and the type-name matching work on the characters.  The numbers  *)
(* that stand for int and float values are naturals.                       *)
(***************************************************************************)
PyStr(s) == [kind |-> "str", v |-> s]
PyInt(n) == [kind |-> "int", v |-> n]
PyBool(b) == [kind |-> "bool", v |-> b]
PyList(l) == [kind |-> "list", v |-> l]
PyDict(d) == [kind |-> "dict", v |-> d]
\* an exception that leaves the call
PyRaise(exc) == [kind |-> "raise", exc |-> exc]

\* the generated model classes: each has its own swagger_types and
\* attribute_map and names its base classes, nearest first.  AliasType adds
\* no field to RefType.
Classes ==
    [EntityType |->
        [bases |-> <<>>,
         swagger_types |-> [id |-> <<"s", "t", "r">>, created |-> <<"d", "a", "t", "e", "t", "i", "m", "e">>],
         attribute_map |-> [id |-> "id", created |-> "creationDate"]],
     ThingType |->
        [bases |-> <<"EntityType">>,
         swagger_types |->
            [display_name |-> <<"s", "t", "r">>, count |-> <<"i", "n", "t">>, enabled |-> <<"b", "o", "o", "l">>,
             since |-> <<"d", "a", "t", "e">>, state |-> <<"S", "t", "a", "t", "e", "E", "n", "u", "m">>,
             tags |-> <<"l", "i", "s", "t", "[", "s", "t", "r", "]">>, labels |-> <<"d", "i", "c", "t", "(", "s", "t", "r", ",", " ", "s", "t", "r", ")">>],
         attribute_map |->
            [display_name |-> "displayName", count |-> "count",
             enabled |-> "isEnabled", since |-> "since", state |-> "state",
             tags |-> "tags", labels |-> "labels"]],
     RefType |->
        [bases |-> <<>>,
         swagger_types |-> [href |-> <<"s", "t", "r">>, ref_type |-> <<"s", "t", "r">>],
         attribute_map |-> [href |-> "href", ref_type |-> "type"]],
     AliasType |->
        [bases |-> <<"RefType">>,
         swagger_types |-> EmptyDict,
         attribute_map |-> EmptyDict],
     HolderType |->
        [bases |-> <<"EntityType">>,
         swagger_types |->
            [name |-> <<"s", "t", "r">>, owner |-> <<"R", "e", "f", "T", "y", "p", "e">>,
             members |-> <<"l", "i", "s", "t", "[", "R", "e", "f", "T", "y", "p", "e", "]">>],
         attribute_map |->
            [name |-> "name", owner |-> "owner", members |-> "member"]],
     QueryResultRecordType |->
        [bases |-> <<>>,
         swagger_types |-> [href |-> <<"s", "t", "r">>, _type |-> <<"s", "t", "r">>],
         attribute_map |-> [href |-> "href", _type |-> "_type"]],
     QueryResultOrgRecordType |->
        [bases |-> <<"QueryResultRecordType">>,
         swagger_types |-> [display_name |-> <<"s", "t", "r">>, number_of_vdcs |-> <<"i", "n", "t">>],
         attribute_map |->
            [display_name |-> "displayName", number_of_vdcs |-> "numberOfVdcs"]]]

\* the names that getattr(schema_v1_5, name) finds
SchemaTypes == {"QueryResultRecordType", "QueryResultOrgRecordType"}

\* the generated Enum classes: member name to value
Enums == [StateEnum |-> [ON |-> PyStr(<<"o", "n">>), OFF |-> PyStr(<<"o", "f", "f">>)]]

\* inspect.getmro(cls) without object
Mro(cls) == <<cls>> \o Classes[cls].bases

\* every attribute the constructors of the class tree set on an instance
AllAttrs(cls) ==
    UNION {DOMAIN Classes[Mro(cls)[i]].swagger_types : i \in 1..Len(Mro(cls))}

DigitChars == <<"0", "1", "2", "3", "4", "5", "6", "7", "8", "9">>

\* n as decimal digits, zero-padded to width
ToDigits(n, width) ==
    [i \in 1..width |-> DigitChars[((n \div (10 ^ (width - i))) % 10) + 1]]

\* date.isoformat() and datetime.isoformat() of a value without microseconds
\* and without time zone
Isoformat(obj) ==
    LET day == ToDigits(obj.y, 4) \o <<"-">> \o ToDigits(obj.m, 2)
                   \o <<"-">> \o ToDigits(obj.d, 2)
    IN  IF obj.kind = "date" THEN day
        ELSE day \o <<"T">> \o ToDigits(obj.hh, 2) \o <<":">>
                 \o ToDigits(obj.mm, 2) \o <<":">> \o ToDigits(obj.ss, 2)

\* the condition of the dict comprehension, line 129
\* the attribute is kept whatever its value
EmitsAttrAlways(obj, attr) == attr \in DOMAIN obj.attrs
EmitsAttr(obj, attr) == attr \in DOMAIN obj.attrs /\ obj.attrs[attr] # PyNone

\* current_dict of one class of the tree, lines 126-130
CurrentDict(obj, cls) ==
    LET kept == {attr \in DOMAIN Classes[cls].swagger_types :
                    EmitsAttr(obj, attr)}
    IN  [key \in {Classes[cls].attribute_map[attr] : attr \in kept} |->
            obj.attrs[CHOOSE attr \in kept :
                          Classes[cls].attribute_map[attr] = key]]

\* obj_dict after the first n classes of cls_tree, lines 123-131
RECURSIVE ObjDict(_, _, _)
ObjDict(obj, cls_tree, n) ==
    IF n = 0 THEN EmptyDict
    ELSE DictUpdate(ObjDict(obj, cls_tree, n - 1),
                    CurrentDict(obj, cls_tree[n]))

\* ApiClient.sanitize_for_serialization; no value of the model is a tuple
RECURSIVE SanitizeForSerialization(_)
SanitizeForSerialization(obj) ==
    IF obj.kind = "none" THEN obj
    ELSE IF obj.kind \in {"str", "int", "bool"} THEN obj
    ELSE IF obj.kind = "list"
    THEN PyList([i \in 1..Len(obj.v) |-> SanitizeForSerialization(obj.v[i])])
    ELSE IF obj.kind \in {"date", "datetime"} THEN PyStr(Isoformat(obj))
    ELSE IF obj.kind = "enum" THEN Enums[obj.class][obj.name]
    ELSE LET obj_dict == IF obj.kind = "dict" THEN obj.v
                         ELSE ObjDict(obj, Mro(obj.class),
                                      Len(Mro(obj.class)))
         IN  PyDict([key \in DOMAIN obj_dict |->
                        SanitizeForSerialization(obj_dict[key])])

\* the index of the last occurrence of the character c in s up to position
\* from, 0 when absent
RECURSIVE LastIndexOf(_, _, _)
LastIndexOf(s, c, from) ==
    IF from = 0 THEN 0
    ELSE IF s[from] = c THEN from
    ELSE LastIndexOf(s, c, from - 1)

IsDigits(s) == s # <<>> /\ \A i \in 1..Len(s) : s[i] \in Elements(DigitChars)

\* n as decimal digits
RECURSIVE ToText(_)
ToText(n) ==
    IF n < 10 THEN <<DigitChars[n + 1]>>
    ELSE Append(ToText(n \div 10), DigitChars[(n % 10) + 1])

\* klass(data) for the classes of PRIMITIVE_TYPES; the text that str() gives
\* for a list or a dict is abbreviated
PrimitiveOf(data, klass) ==
    CASE klass = "str" ->
            (CASE data.kind = "str" -> data
               [] data.kind = "int" -> PyStr(ToText(data.v))
               [] data.kind = "bool" ->
                    PyStr(IF data.v THEN <<"T", "r", "u", "e">> ELSE <<"F", "a", "l", "s", "e">>)
               [] data.kind = "list" -> PyStr(<<"[", ".", ".", ".", "]">>)
               [] OTHER -> PyStr(<<"{", ".", ".", ".", "}">>))
      [] klass = "bool" ->
            (CASE data.kind = "bool" -> data
               [] data.kind = "int" -> PyBool(data.v # 0)
               [] data.kind = "dict" -> PyBool(DOMAIN data.v # {})
               [] OTHER -> PyBool(Len(data.v) > 0))
      [] OTHER -> \* int and float
            (CASE data.kind = "int" -> data
               [] data.kind = "bool" -> PyInt(IF data.v THEN 1 ELSE 0)
               [] data.kind = "str" ->
                    IF IsDigits(data.v) THEN PyInt(DigitsValue(data.v, 0))
                    ELSE PyRaise("ValueError")
               [] OTHER -> PyRaise("TypeError"))

\* ApiClient.__deserialize_primitive: a TypeError gives the data back, any
\* other exception leaves the call
DeserializePrimitive(data, klass) ==
    LET made == PrimitiveOf(data, klass)
    IN  IF made = PyRaise("TypeError") THEN data ELSE made

\* dateutil's parse(string) for the ISO 8601 forms YYYY-MM-DD and
\* YYYY-MM-DDTHH:MM:SS; any other text counts as unparseable
Parse(string) ==
    IF string.kind # "str" THEN PyRaise("TypeError")
    ELSE LET halves == Split(string.v, "T")
             day == Split(halves[1], "-")
             time == IF Len(halves) = 2 THEN Split(halves[2], ":")
                     ELSE <<<<"0">>, <<"0">>, <<"0">>>>
         IN  IF /\ Len(halves) <= 2
                /\ Len(day) = 3 /\ \A i \in 1..3 : IsDigits(day[i])
                /\ Len(time) = 3 /\ \A i \in 1..3 : IsDigits(time[i])
             THEN [kind |-> "datetime",
                   y |-> DigitsValue(day[1], 0), m |-> DigitsValue(day[2], 0),
                   d |-> DigitsValue(day[3], 0),
                   hh |-> DigitsValue(time[1], 0),
                   mm |-> DigitsValue(time[2], 0),
                   ss |-> DigitsValue(time[3], 0)]
             ELSE PyRaise("ValueError")

\* ApiClient.__deserialize_date
DeserializeDate(string) ==
    LET parsed == Parse(string)
    IN  IF parsed = PyRaise("ValueError") THEN PyRaise("ApiException")
        ELSE IF parsed.kind = "raise" THEN parsed
        ELSE [kind |-> "date", y |-> parsed.y, m |-> parsed.m, d |-> parsed.d]

\* ApiClient.__deserialize_datatime
DeserializeDatatime(string) ==
    LET parsed == Parse(string)
    IN  IF parsed = PyRaise("ValueError") THEN PyRaise("ApiException")
        ELSE parsed

\* klass(data) for an Enum class: the member of that value
EnumOfValue(klass, data) ==
    LET members == {name \in DOMAIN Enums[klass] :
                       /\ data.kind = Enums[klass][name].kind
                       /\ data.v = Enums[klass][name].v}
    IN  IF members = {} THEN PyRaise("ValueError")
        ELSE [kind |-> "enum", class |-> klass,
              name |-> CHOOSE name \in members : TRUE]

\* the exception of the first value that is one, PyNone when none is
FirstRaise(values) ==
    IF \E i \in 1..Len(values) : values[i].kind = "raise"
    THEN values[CHOOSE i \in 1..Len(values) :
                   /\ values[i].kind = "raise"
                   /\ \A j \in 1..(i - 1) : values[j].kind # "raise"]
    ELSE PyNone

\* the wire keys of the class tree
DeclaredWireKeys(cls) ==
    UNION {{Classes[Mro(cls)[i]].attribute_map[attr] :
                attr \in DOMAIN Classes[Mro(cls)[i]].swagger_types} :
           i \in 1..Len(Mro(cls))}

\* __deserialize_model lines 472-474: the class that the payload's _type
\* names; list and str have no get, and getattr wants a str
\* the payload's _type is not read
RecordClassIgnored(data) == [kind |-> "class", name |-> "QueryResultRecordType"]
RecordClass(data) ==
    IF data.kind # "dict" THEN PyRaise("AttributeError")
    ELSE IF "_type" \notin DOMAIN data.v THEN PyRaise("TypeError")
    ELSE IF data.v["_type"].kind # "str" THEN PyRaise("TypeError")
    ELSE IF Join(data.v["_type"].v) \in SchemaTypes
    THEN [kind |-> "class", name |-> Join(data.v["_type"].v)]
    ELSE PyRaise("AttributeError")

RECURSIVE Deserialize(_, _)
RECURSIVE DeserializeModelTree(_, _)

\* ApiClient.__deserialize_model: the attributes are read from a dict; a
\* class without swagger_types of its own gives the data back; against
\* QueryResultRecordType the class is the one the payload names
DeserializeModelTree(data, given_klass) ==
    IF given_klass \in DOMAIN Enums THEN EnumOfValue(given_klass, data)
    ELSE IF DOMAIN Classes[given_klass].swagger_types = {} THEN data
    ELSE IF given_klass = "QueryResultRecordType"
            /\ RecordClass(data).kind = "raise"
    THEN RecordClass(data)
    ELSE LET klass == IF given_klass = "QueryResultRecordType"
                      THEN RecordClass(data).name ELSE given_klass
             cls_tree == Mro(klass)
             \* a wire key that is an element of a list
             in_list(key) ==
                 /\ data.kind = "list"
                 /\ \E i \in 1..Len(data.v) :
                       data.v[i].kind = "str" /\ Join(data.v[i].v) = key
             present(cls) ==
                 {attr \in DOMAIN Classes[cls].swagger_types :
                     /\ data.kind = "dict"
                     /\ Classes[cls].attribute_map[attr] \in DOMAIN data.v}
             \* the last class of the tree that gives the attribute
             giver(attr) ==
                 cls_tree[CHOOSE i \in 1..Len(cls_tree) :
                     /\ attr \in present(cls_tree[i])
                     /\ \A j \in (i + 1)..Len(cls_tree) :
                            attr \notin present(cls_tree[j])]
             given == UNION {present(cls_tree[i]) : i \in 1..Len(cls_tree)}
             kwargs ==
                 [attr \in given |->
                     Deserialize(
                         data.v[Classes[giver(attr)].attribute_map[attr]],
                         Classes[giver(attr)].swagger_types[attr])]
             raised == {attr \in given : kwargs[attr].kind = "raise"}
         IN  IF data.kind \in {"int", "bool"}
             THEN \* `in` on a number
                  PyRaise("TypeError")
             ELSE IF \E key \in DeclaredWireKeys(klass) : in_list(key)
             THEN \* data[key] on a list
                  PyRaise("TypeError")
             ELSE IF raised # {} THEN kwargs[CHOOSE attr \in raised : TRUE]
             ELSE [kind |-> "model", class |-> klass,
                   attrs |-> [attr \in AllAttrs(klass) |->
                                 IF attr \in given THEN kwargs[attr]
                                 ELSE PyNone]]

\* ApiClient.__deserialize for a type given by its name; the data of a list
\* type is a list and the data of a dict type is a dict
Deserialize(data, klass) ==
    IF data = PyNone THEN PyNone
    ELSE IF StartsWith(klass, <<"l", "i", "s", "t", "[">>)
    THEN LET close == LastIndexOf(klass, "]", Len(klass)) IN
         IF close = 0 THEN PyRaise("AttributeError")
         ELSE IF data.kind # "list" THEN PyRaise("TypeError")
         ELSE LET sub_kls == SubSeq(klass, 6, close - 1)
                  made == [i \in 1..Len(data.v) |->
                              Deserialize(data.v[i], sub_kls)]
              IN  IF FirstRaise(made) # PyNone THEN FirstRaise(made)
                  ELSE PyList(made)
    ELSE IF StartsWith(klass, <<"d", "i", "c", "t", "(">>)
    THEN LET comma == IndexOf(klass, ",", 1)
             close == LastIndexOf(klass, ")", Len(klass))
         IN  IF comma = 0 \/ close < comma + 2 \/ klass[comma + 1] # " "
             THEN PyRaise("AttributeError")
             ELSE IF data.kind # "dict" THEN PyRaise("AttributeError")
             ELSE LET sub_kls == SubSeq(klass, comma + 2, close - 1)
                      made == [k \in DOMAIN data.v |->
                                  Deserialize(data.v[k], sub_kls)]
                      raised == {k \in DOMAIN made : made[k].kind = "raise"}
                  IN  IF raised # {} THEN made[CHOOSE k \in raised : TRUE]
                      ELSE PyDict(made)
    ELSE IF klass \in {<<"i", "n", "t">>, <<"l", "o", "n", "g">>, <<"f", "l", "o", "a", "t">>}
    THEN DeserializePrimitive(data, "int")
    ELSE IF klass \in {<<"s", "t", "r">>, <<"b", "o", "o", "l">>}
    THEN DeserializePrimitive(data, Join(klass))
    ELSE IF klass = <<"o", "b", "j", "e", "c", "t">> THEN data
    ELSE IF klass = <<"d", "a", "t", "e">> THEN DeserializeDate(data)
    ELSE IF klass = <<"d", "a", "t", "e", "t", "i", "m", "e">> THEN DeserializeDatatime(data)
    ELSE IF Join(klass) \in DOMAIN Classes \cup DOMAIN Enums
    THEN DeserializeModelTree(data, Join(klass))
    ELSE \* the name stays a str, which has no swagger_types
         PyRaise("AttributeError")

\* ApiClient.__deserialize for a type given as a class of the models package
DeserializeClass(data, klass) ==
    IF data = PyNone THEN PyNone ELSE DeserializeModelTree(data, klass)

\* the application serializes a model object
Serialize ==
    /\ ser_pc = "built"
    /\ ser_out' = SanitizeForSerialization(ser_obj)
    /\ ser_pc' = "serialized"
    /\ UNCHANGED <<mon_vars, client_vars, last_task, req_vars, found, session,
                   op, granted, ser_obj, ser_back, ser_type, threads,
                   log>>

\* the application deserializes what it serialized, against the object's own
\* type
DeserializeBack ==
    /\ ser_pc = "serialized"
    /\ ser_back' = DeserializeClass(ser_out, ser_obj.class)
    /\ ser_pc' = "deserialized"
    /\ UNCHANGED <<mon_vars, client_vars, last_task, req_vars, found, session,
                   op, granted, ser_obj, ser_out, ser_type, threads,
                   log>>

\* the type of an attribute of the class tree
AttrType(cls, attr) ==
    Classes[CHOOSE c \in Elements(Mro(cls)) :
                attr \in DOMAIN Classes[c].swagger_types].swagger_types[attr]

RECURSIVE FieldValues(_)
RECURSIVE AttrChoices(_, _)
RECURSIVE ObjectsOf(_)

\* the values a field of each type takes in the model; None is unset
FieldValues(type) ==
    {PyNone} \cup
    (CASE type = <<"s", "t", "r">> -> {PyStr(<<"n">>)}
       [] type = <<"i", "n", "t">> -> {PyInt(0)}
       [] type = <<"b", "o", "o", "l">> -> {PyBool(FALSE)}
       [] type = <<"d", "a", "t", "e">> -> {[kind |-> "date", y |-> 1999, m |-> 12, d |-> 31]}
       [] type = <<"d", "a", "t", "e", "t", "i", "m", "e">> ->
            {[kind |-> "datetime", y |-> 2020, m |-> 1, d |-> 2,
              hh |-> 3, mm |-> 4, ss |-> 5]}
       [] type = <<"S", "t", "a", "t", "e", "E", "n", "u", "m">> ->
            {[kind |-> "enum", class |-> "StateEnum", name |-> "OFF"]}
       [] type = <<"l", "i", "s", "t", "[", "s", "t", "r", "]">> -> {PyList(<<>>), PyList(<<PyStr(<<"a">>)>>)}
       [] type = <<"d", "i", "c", "t", "(", "s", "t", "r", ",", " ", "s", "t", "r", ")">> -> {PyDict([k |-> PyStr(<<"v">>)])}
       [] type = <<"R", "e", "f", "T", "y", "p", "e">> -> ObjectsOf("RefType")
       [] type = <<"l", "i", "s", "t", "[", "R", "e", "f", "T", "y", "p", "e", "]">> ->
            {PyList(<<>>)} \cup {PyList(<<o>>) : o \in ObjectsOf("RefType")})

\* every way to give the attributes values of their types
AttrChoices(cls, attrs) ==
    IF attrs = {} THEN {EmptyDict}
    ELSE LET attr == CHOOSE a \in attrs : TRUE
         IN  {DictSet(rest, attr, value) :
                 rest \in AttrChoices(cls, attrs \ {attr}),
                 value \in FieldValues(AttrType(cls, attr))}

\* the objects of a class
ObjectsOf(cls) ==
    {[kind |-> "model", class |-> cls, attrs |-> attrs] :
        attrs \in AttrChoices(cls, AllAttrs(cls))}

\* an object is serialized and read back
InitSer ==
    /\ MonIdle
    /\ ReqIdle
    /\ ClientInit({<<"h">>}, {None})
    /\ ser_pc = "built"
    /\ ser_obj \in UNION {ObjectsOf(cls) : cls \in DOMAIN Classes}
    /\ ser_out = PyNone
    /\ ser_back = PyNone
    /\ ser_type = <<>>

NextSer ==
    \/ Serialize
    \/ DeserializeBack

SpecSer == InitSer /\ [][NextSer]_vars

\* the wire keys the class tree declares
DeclaredKeys(cls) ==
    UNION {{Classes[c].attribute_map[attr] :
                attr \in DOMAIN Classes[c].swagger_types} :
           c \in Elements(Mro(cls))}

\* out holds a key for exactly the set fields of obj, each a declared wire
\* key, and so do the model objects inside it
RECURSIVE OmitsUnset(_, _)
OmitsUnset(obj, out) ==
    CASE obj.kind = "model" ->
            /\ out.kind = "dict"
            /\ DOMAIN out.v \subseteq DeclaredKeys(obj.class)
            /\ \A c \in Elements(Mro(obj.class)) :
                 \A attr \in DOMAIN Classes[c].swagger_types :
                    LET key == Classes[c].attribute_map[attr] IN
                    IF obj.attrs[attr] = PyNone THEN key \notin DOMAIN out.v
                    ELSE /\ key \in DOMAIN out.v
                         /\ OmitsUnset(obj.attrs[attr], out.v[key])
      [] obj.kind = "list" ->
            /\ out.kind = "list"
            /\ Len(out.v) = Len(obj.v)
            /\ \A i \in 1..Len(obj.v) : OmitsUnset(obj.v[i], out.v[i])
      [] OTHER -> TRUE

\* C19: the serialization of a model object has no entry under the wire key
\* of a field that is unset on it, own or inherited, at every depth of model
\* objects, and every key it has is a declared wire key
C19_UnsetFieldsAreOmitted ==
    ser_pc # "built" => OmitsUnset(ser_obj, ser_out)

\* C19: an object with a set and an unset inherited field, an unset own
\* field, and a nested object with an unset field whose wire key differs from
\* its name, has been serialized
C19_Witness ==
    /\ ser_pc = "serialized"
    /\ ser_obj.class = "HolderType"
    /\ ser_obj.attrs["id"] # PyNone
    /\ ser_obj.attrs["created"] = PyNone
    /\ ser_obj.attrs["name"] = PyNone
    /\ ser_obj.attrs["owner"] # PyNone
    /\ ser_obj.attrs["owner"].attrs["href"] # PyNone
    /\ ser_obj.attrs["owner"].attrs["ref_type"] = PyNone
    /\ DOMAIN ser_out.v["owner"].v = {"href"}

\* the type is a primitive, a date or datetime, an enum, or a collection of
\* these
RECURSIVE PlainType(_)
PlainType(type) ==
    IF StartsWith(type, <<"l", "i", "s", "t", "[">>)
    THEN PlainType(SubSeq(type, 6, Len(type) - 1))
    ELSE IF StartsWith(type, <<"d", "i", "c", "t", "(">>)
    THEN PlainType(SubSeq(type, IndexOf(type, ",", 1) + 2, Len(type) - 1))
    ELSE \/ type \in {<<"i", "n", "t">>, <<"l", "o", "n", "g">>, <<"f", "l", "o", "a", "t">>, <<"s", "t", "r">>, <<"b", "o", "o", "l">>, <<"d", "a", "t", "e">>,
                      <<"d", "a", "t", "e", "t", "i", "m", "e">>}
         \/ Join(type) \in DOMAIN Enums

\* every field of the class, own or inherited, is of such a type
PlainClass(cls) == \A attr \in AllAttrs(cls) : PlainType(AttrType(cls, attr))

\* C20: deserializing the serialization of a model object whose fields are
\* primitives, dates, datetimes, enums or collections of these, against the
\* object's type, gives an object with an equal value in every set field and
\* with every unset field unset
C20_RoundTrip ==
    (ser_pc = "deserialized" /\ PlainClass(ser_obj.class)) =>
        /\ ser_back.kind = "model"
        /\ ser_back.class = ser_obj.class
        /\ \A attr \in AllAttrs(ser_obj.class) :
              ser_back.attrs[attr] = ser_obj.attrs[attr]

\* the application deserializes a payload against a type given by its name
DeserializePayload(payloads, types) ==
    /\ ser_pc = "idle"
    /\ \E data \in payloads, klass \in types :
          /\ ser_out' = data
          /\ ser_type' = klass
          /\ ser_back' = Deserialize(data, klass)
    /\ ser_pc' = "deserialized"
    /\ UNCHANGED <<mon_vars, client_vars, last_task, req_vars, found, session,
                   op, granted, ser_obj, threads,
                   log>>

\* a dict of the given entries, None for an entry that is absent
RECURSIVE DictOf(_, _)
DictOf(keys, value) ==
    IF keys = {} THEN EmptyDict
    ELSE LET key == CHOOSE k \in keys : TRUE
             rest == DictOf(keys \ {key}, value)
         IN  IF value[key] = PyNone THEN rest
             ELSE DictSet(rest, key, value[key])

\* query records as the server sends them: the discriminator names the
\* concrete type, the base type, no registered type, or is absent
RecordPayloads ==
    {PyDict(DictOf({"_type", "href", "displayName", "numberOfVdcs"},
                   [_type |-> t, href |-> h, displayName |-> n,
                    numberOfVdcs |-> c])) :
        t \in {PyNone, PyStr(<<"Q", "u", "e", "r", "y", "R", "e", "s", "u", "l", "t", "O", "r", "g", "R", "e", "c", "o", "r", "d", "T", "y", "p", "e">>),
                PyStr(<<"Q", "u", "e", "r", "y", "R", "e", "s", "u", "l", "t", "R", "e", "c", "o", "r", "d", "T", "y", "p", "e">>), PyStr(<<"F", "o", "o">>)},
        h \in {PyNone, PyStr(<<"/", "r">>)},
        n \in {PyNone, PyStr(<<"o">>)},
        c \in {PyNone, PyInt(2)}}

\* other payloads: primitives, text of dates, sequences and mappings
OtherPayloads ==
    {PyNone, PyInt(0), PyInt(7), PyBool(TRUE), PyBool(FALSE), PyStr(<<>>),
     PyStr(<<"1", "2">>), PyStr(<<"a", "b">>), PyStr(<<"1", "9", "9", "9", "-", "1", "2", "-", "3", "1">>),
     PyStr(<<"2", "0", "2", "0", "-", "0", "1", "-", "0", "2", "T", "0", "3", ":", "0", "4", ":", "0", "5">>), PyStr(<<"2", "0", "2", "0", "-", "1", "3">>), PyList(<<>>),
     PyList(<<PyInt(1)>>), PyList(<<PyStr(<<"h", "r", "e", "f">>)>>), PyDict(EmptyDict),
     PyDict([k |-> PyStr(<<"v">>)])}

PayloadTypes ==
    {<<"i", "n", "t">>, <<"l", "o", "n", "g">>, <<"f", "l", "o", "a", "t">>, <<"s", "t", "r">>, <<"b", "o", "o", "l">>, <<"o", "b", "j", "e", "c", "t">>, <<"d", "a", "t", "e">>,
     <<"d", "a", "t", "e", "t", "i", "m", "e">>, <<"Q", "u", "e", "r", "y", "R", "e", "s", "u", "l", "t", "R", "e", "c", "o", "r", "d", "T", "y", "p", "e">>, <<"R", "e", "f", "T", "y", "p", "e">>, <<"S", "t", "a", "t", "e", "E", "n", "u", "m">>,
     <<"l", "i", "s", "t", "[", "i", "n", "t", "]">>, <<"l", "i", "s", "t", "[", "Q", "u", "e", "r", "y", "R", "e", "s", "u", "l", "t", "R", "e", "c", "o", "r", "d", "T", "y", "p", "e", "]">>}

\* one payload is deserialized against one type
InitDes ==
    /\ MonIdle
    /\ ReqIdle
    /\ SerIdle
    /\ ClientInit({<<"h">>}, {None})

NextDes == DeserializePayload(RecordPayloads \cup OtherPayloads, PayloadTypes)

SpecDes == InitDes /\ [][NextDes]_vars

\* a payload was deserialized against QueryResultRecordType and its _type is
\* text
RecordDeserialized ==
    /\ ser_pc = "deserialized"
    /\ ser_type = <<"Q", "u", "e", "r", "y", "R", "e", "s", "u", "l", "t", "R", "e", "c", "o", "r", "d", "T", "y", "p", "e">>
    /\ ser_out.kind = "dict"
    /\ "_type" \in DOMAIN ser_out.v

\* C21: against QueryResultRecordType, a payload whose _type names a
\* registered type gives an instance of that type with every own and
\* inherited field that the payload holds populated; a payload whose _type
\* names no registered type makes the deserialization fail with the error of
\* the type lookup
C21_DiscriminatorSelectsType ==
    RecordDeserialized =>
        LET name == Join(ser_out.v["_type"].v) IN
        IF name \in SchemaTypes
        THEN /\ ser_back.kind = "model"
             /\ ser_back.class = name
             /\ \A i \in 1..Len(Mro(name)) :
                  \A attr \in DOMAIN Classes[Mro(name)[i]].swagger_types :
                     LET key == Classes[Mro(name)[i]].attribute_map[attr] IN
                     IF key \in DOMAIN ser_out.v
                     THEN ser_back.attrs[attr] = ser_out.v[key]
                     ELSE ser_back.attrs[attr] = PyNone
        ELSE ser_back = PyRaise("AttributeError")

\* C21: a record that names the concrete type and holds an inherited and an
\* own field was deserialized against the base type
C21_Witness ==
    /\ RecordDeserialized
    /\ ser_out.v["_type"] = PyStr(<<"Q", "u", "e", "r", "y", "R", "e", "s", "u", "l", "t", "O", "r", "g", "R", "e", "c", "o", "r", "d", "T", "y", "p", "e">>)
    /\ {"href", "displayName"} \subseteq DOMAIN ser_out.v
    /\ ser_back.kind = "model"
    /\ ser_back.attrs["href"] = PyStr(<<"/", "r">>)
    /\ ser_back.attrs["display_name"] = PyStr(<<"o">>)

\* C22: against a primitive target type, a payload that is a sequence or a
\* mapping comes back as the raw payload, unchanged, whatever the primitive
\* type, and the call never fails
C22_NonPrimitivePayloadComesBack ==
    (/\ ser_pc = "deserialized"
     /\ ser_type \in {<<"i", "n", "t">>, <<"f", "l", "o", "a", "t">>, <<"s", "t", "r">>, <<"b", "o", "o", "l">>}
     /\ ser_out.kind \in {"list", "dict"}) =>
        (ser_back.kind = ser_out.kind /\ ser_back = ser_out)

(***************************************************************************)
(* A 2xx answer whose body is still to be deserialized: ApiClient.          *)
(* _do_request lines 290-291 inside the try of VcdClient._do_request.       *)
(***************************************************************************)
\* the ApiException(status=0, reason=...) of __deserialize_date and
\* __deserialize_datatime: it has no body and no headers
DeserializationFailure == ApiException(0, BodyNone, NoneObj)

\* the transport answers 2xx with a body that deserialize decodes against
\* the response type; an ApiException of the decoding is caught by the
\* handler of VcdClient._do_request, any other exception leaves the call
TransportReturnsBody(responses) ==
    /\ req_pc = "sent"
    /\ \E r \in responses :
          LET decoded == Deserialize(r.data.payload, r.data.klass) IN
          /\ resp' = r
          /\ own_resp' = OwnAnswer(r)
          /\ IF decoded.kind # "raise"
             THEN Apply(HandleResponse([r EXCEPT !.data = decoded], stack,
                                       wire, transport_calls))
             ELSE IF decoded.exc = "ApiException"
             THEN Apply(HandleApiException(DeserializationFailure,
                                           CurrentLastCall, wire,
                                           transport_calls))
             ELSE Apply(Raise(CurrentLastCall, wire, transport_calls,
                              [type |-> decoded.exc]))
    /\ UNCHANGED <<mon_vars, base_uri, api_version, default_headers, call,
                   app_vars>>

\* bodies for the response type ThingType: the date and the datetime field
\* are absent, ISO 8601 text, or text that is no date
ThingPayloads ==
    {PyDict(DictOf({"creationDate", "since", "displayName", "count"},
                   [creationDate |-> c, since |-> s, displayName |-> n,
                    count |-> k])) :
        c \in {PyNone, PyStr(<<"2", "0", "2", "0", "-", "0", "1", "-", "0", "2", "T", "0", "3", ":", "0", "4", ":", "0", "5">>), PyStr(<<"a", "b">>)},
        s \in {PyNone, PyStr(<<"1", "9", "9", "9", "-", "1", "2", "-", "3", "1">>), PyStr(<<"a", "b">>)},
        n \in {PyNone, PyStr(<<"n">>)},
        k \in {PyNone, PyInt(0)}}

BodyResponses ==
    {Response(200, Headers("req-1", Absent, <<>>),
              [payload |-> p, klass |-> <<"T", "h", "i", "n", "g", "T", "y", "p", "e">>]) :
        p \in ThingPayloads}

\* requests whose 2xx body is deserialized, one after the other
InitBody ==
    /\ MonIdle
    /\ ReqIdle
    /\ SerIdle
    /\ ClientInit({<<"h">>}, ApiVersions)

NextBody ==
    \/ ApiCall(ValidHrefs, {NoneObj}, {"ThingType"}, {"get_resource"})
    \/ TransportReturnsBody(BodyResponses)
    \/ NextCall

SpecBody == InitBody /\ [][NextBody]_vars

\* the caller's request was answered 2xx with a body whose date or datetime
\* field does not parse
UnparseableDateAnswered ==
    /\ req_pc = "done"
    /\ resp.kind = "response"
    /\ resp.data.payload.kind = "dict"
    /\ \E key \in {"creationDate", "since"} :
          /\ key \in DOMAIN resp.data.payload.v
          /\ resp.data.payload.v[key] = PyStr(<<"a", "b">>)

\* C23: a 2xx answer whose date or datetime field does not parse makes the
\* request fail with the deserialization error, which reaches the caller
\* without passing through the handling of HTTP errors: no exception is
\* chosen by status and the last status does not become an error status
C23_DateErrorIsNotAnHttpError ==
    UnparseableDateAnswered =>
        /\ req_raised.type = "ApiException"
        /\ last_status # DeserializationFailure.status

(***************************************************************************)
(* Callers that share one client.  Each caller runs VcdClient._do_request  *)
(* with its own locals (is_api_uri, response_data, ae); self._status,      *)
(* self._headers, self._links and self._task are the client's.  A step is  *)
(* one statement that reads or writes a field of the client.               *)
(***************************************************************************)
Callers == {"a", "b"}

\* a caller before its request
IdleThread ==
    [pc |-> "idle", href |-> <<>>, is_api_uri |-> FALSE, answer |-> NoResp,
     links |-> NoneObj, task_href |-> Absent, result |-> NoneObj,
     raised |-> NoExc]

\* the callers come to the client
ThreadsStart ==
    /\ threads = NoThreads
    /\ threads' = [t \in Callers |-> IdleThread]
    /\ UNCHANGED <<mon_vars, client_vars, last_task, req_vars, found, session,
                   op, granted, ser_vars,
                   log>>

\* an exception that is no ApiException ends the caller's request
ThreadRaises(t, type) ==
    [threads EXCEPT ![t].pc = "done", ![t].raised = [type |-> type]]

\* _do_request lines 452-457, to the transport call: line 456 resets the
\* client's fields
ThreadBegin(t, hrefs) ==
    /\ threads # NoThreads
    /\ threads[t].pc = "idle"
    /\ \E h \in hrefs :
          threads' = [threads EXCEPT ![t].pc = "sent", ![t].href = h.href,
                          ![t].is_api_uri = IsApiUri(h.href).value]
    /\ Apply(Outcome(ResetLastCall, stack, wire, transport_calls, req_pc,
                     req_result, req_raised))
    /\ UNCHANGED <<mon_vars, base_uri, api_version, default_headers, call,
                   resp, own_resp, found, session, op, granted, ser_vars,
                   log>>

\* line 457: the transport answers 2xx and the assignment stores status and
\* headers in the client
ThreadReturns(t, responses) ==
    /\ threads # NoThreads
    /\ threads[t].pc = "sent"
    /\ \E r \in responses :
          /\ threads' = [threads EXCEPT ![t].pc = "store_links",
                             ![t].answer = r, ![t].result = r.data]
          /\ last_status' = r.status
          /\ last_headers' = r.headers
    /\ UNCHANGED <<mon_vars, base_uri, api_version, default_headers,
                   last_links, last_task, req_vars, found, session, op,
                   granted, ser_vars,
                   log>>

\* lines 467-468: the transport raises ApiException and the handler stores
\* its status in the client
ThreadCatches(t, exceptions) ==
    /\ threads # NoThreads
    /\ threads[t].pc = "sent"
    /\ \E ae \in exceptions :
          /\ threads' = [threads EXCEPT ![t].pc = "except", ![t].answer = ae]
          /\ last_status' = ae.status
    /\ UNCHANGED <<mon_vars, base_uri, api_version, default_headers,
                   last_headers, last_links, last_task, req_vars, found,
                   session, op, granted, ser_vars,
                   log>>

\* lines 469-474: the exception is chosen by self._status
ThreadExcept(t) ==
    /\ threads # NoThreads
    /\ threads[t].pc = "except"
    /\ LET ae == threads[t].answer
           loaded == JsonLoads(ae.body)
       IN  threads' =
             IF loaded.exc # "none" THEN ThreadRaises(t, loaded.exc)
             ELSE [threads EXCEPT ![t].pc = "done",
                      ![t].raised =
                          GetSpecificException(last_status,
                                               ae.headers.request_id,
                                               DeserializeError(loaded))]
    /\ UNCHANGED <<mon_vars, client_vars, last_task, req_vars, found, session,
                   op, granted, ser_vars,
                   log>>

\* line 465, _store_links: the Link headers are read from self._headers
ThreadStoreLinks(t) ==
    /\ threads # NoThreads
    /\ threads[t].pc = "store_links"
    /\ IF ~threads[t].is_api_uri /\ last_headers = NoneObj
       THEN \* None has no getlist; line 536 came before
            /\ threads' = ThreadRaises(t, "AttributeError")
            /\ last_links' = List(<<>>)
       ELSE LET stored == StoreLinks(threads[t].is_api_uri,
                                     threads[t].result, last_headers)
            IN  /\ last_links' = stored.links
                /\ threads' =
                     IF stored.exc # "none" THEN ThreadRaises(t, stored.exc)
                     ELSE [threads EXCEPT ![t].pc = "store_task",
                                          ![t].links = stored.links]
    /\ UNCHANGED <<mon_vars, base_uri, api_version, default_headers,
                   last_status, last_headers, last_task, req_vars, found,
                   session, op, granted, ser_vars,
                   log>>

\* the answer to the follow-up GET of a task
FollowUpAnswer == Response(200, Headers("req-2", Absent, <<>>), ServerTask)

\* line 466, _store_task: the Location header is read from self._headers;
\* the follow-up GET runs to its end within the step
ThreadStoreTask(t) ==
    /\ threads # NoThreads
    /\ threads[t].pc = "store_task"
    /\ LET response == threads[t].result
           own_task == IF IsTask(response) THEN response ELSE NoneTask
           listed == /\ HasAttr(response, "tasks")
                     /\ ~response.tasks.isNone
                     /\ Len(response.tasks.v) > 0
       IN  IF threads[t].is_api_uri
           THEN /\ last_task' = IF listed THEN response.tasks.v[1]
                                ELSE own_task
                /\ threads' = [threads EXCEPT ![t].pc = "done"]
                /\ UNCHANGED <<last_status, last_headers, last_links>>
           ELSE IF last_headers = NoneObj
           THEN \* None has no get
                /\ last_task' = own_task
                /\ threads' = ThreadRaises(t, "AttributeError")
                /\ UNCHANGED <<last_status, last_headers, last_links>>
           ELSE IF last_headers.location.isNone
           THEN /\ last_task' = own_task
                /\ threads' = [threads EXCEPT ![t].pc = "done"]
                /\ UNCHANGED <<last_status, last_headers, last_links>>
           ELSE \* get_resource(href=task_href, response_type=TaskType)
                /\ threads' = [threads EXCEPT ![t].pc = "done",
                                   ![t].task_href = last_headers.location]
                /\ last_status' = FollowUpAnswer.status
                /\ last_headers' = FollowUpAnswer.headers
                /\ last_links' = List(<<>>)
                /\ last_task' = FollowUpAnswer.data
    /\ UNCHANGED <<mon_vars, base_uri, api_version, default_headers,
                   req_vars, found, session, op, granted, ser_vars,
                   log>>

\* what the transport answers to the callers
ThreadLocation == Present(<<"h", "t", "t", "p", "s", ":", "/", "/", "h", "/", "c", "l", "o", "u", "d", "a", "p", "i", "/", "t">>)
ThreadResponses ==
    {Response(200, Headers("req-1", loc, links), [class |-> "Role"]) :
        loc \in {Absent, ThreadLocation}, links \in {<<>>, <<LinkCompact>>}}
ThreadExceptions ==
    {ApiException(status, BodyJson([message |-> "x"]),
                  Headers("req-1", Absent, <<>>)) : status \in {404, 500}}

\* two callers, each with one request, in every interleaving
InitConc ==
    /\ MonIdle
    /\ ReqIdle
    /\ SerIdle
    /\ ClientInit({<<"h">>}, {None})

NextConc ==
    \/ ThreadsStart
    \/ \E t \in Callers : ThreadBegin(t, ValidHrefs)
    \/ \E t \in Callers : ThreadReturns(t, ThreadResponses)
    \/ \E t \in Callers : ThreadCatches(t, ThreadExceptions)
    \/ \E t \in Callers : ThreadExcept(t)
    \/ \E t \in Callers : ThreadStoreLinks(t)
    \/ \E t \in Callers : ThreadStoreTask(t)

SpecConc == InitConc /\ [][NextConc]_vars

\* the outcome of the caller's request when it runs alone: the body of its
\* answer, the links and the follow-up GET of its own headers, or the
\* exception of its own status
AloneOutcome(th) ==
    IF th.answer.kind = "response"
    THEN [result |-> th.answer.data,
          links |-> StoreLinks(th.is_api_uri, th.answer.data,
                               th.answer.headers).links,
          task_href |-> IF th.is_api_uri THEN Absent
                        ELSE th.answer.headers.location,
          raised |-> NoExc]
    ELSE [result |-> NoneObj, links |-> NoneObj, task_href |-> Absent,
          raised |-> GetSpecificException(
                         th.answer.status, th.answer.headers.request_id,
                         DeserializeError(JsonLoads(th.answer.body)))]

\* C24: whatever the interleaving of two callers on one client, each request
\* ends with the outcome it has when it runs alone: its decoded body, the
\* links and the task follow-up of its own response headers, or its own
\* typed error
C24_ConcurrentOutcomeAsAlone ==
    threads # NoThreads =>
        \A t \in Callers :
            threads[t].pc = "done" =>
                LET alone == AloneOutcome(threads[t]) IN
                /\ threads[t].raised = alone.raised
                /\ threads[t].raised = NoExc =>
                      /\ threads[t].result = alone.result
                      /\ threads[t].links = alone.links
                      /\ threads[t].task_href = alone.task_href

(***************************************************************************)
(* Logging of headers: ApiClient._redact_headers and _do_log_headers, on a  *)
(* client built with log_headers=True.  A header name is text, because the  *)
(* letter case of its characters matters.                                   *)
(***************************************************************************)
HEADERS_TO_REDACT ==
    {<<"A", "u", "t", "h", "o", "r", "i", "z", "a", "t", "i", "o", "n">>, <<"x", "-", "v", "c", "l", "o", "u", "d", "-", "a", "u", "t", "h", "o", "r", "i", "z", "a", "t", "i", "o", "n">>,
     <<"X", "-", "V", "M", "W", "A", "R", "E", "-", "V", "C", "L", "O", "U", "D", "-", "A", "C", "C", "E", "S", "S", "-", "T", "O", "K", "E", "N">>}

REDACTED == "[REDACTED]"

\* ApiClient._redact_headers
RedactHeaders(headers) ==
    [key \in DOMAIN headers |->
        IF key \notin HEADERS_TO_REDACT THEN headers[key] ELSE REDACTED]

\* ApiClient._do_log_headers: the entry that the logger writes
DoLogHeaders(headers, type) ==
    Append(log, [type |-> type, headers |-> RedactHeaders(headers)])

\* ApiClient._do_request lines 245-271: the headers of the call, updated
\* with the default headers, are logged before the transport is called
LogRequestHeaders(header_choices, default_choices) ==
    /\ Len(log) = 0
    /\ \E header_params \in header_choices, defaults \in default_choices :
          log' = DoLogHeaders(DictUpdate(header_params, defaults), "Request")
    /\ UNCHANGED <<mon_vars, client_vars, last_task, req_vars, found, session,
                   op, granted, ser_vars, threads>>

\* ApiClient._do_request lines 284-286: the headers of the answer are logged
LogResponseHeaders(header_choices) ==
    /\ Len(log) = 1
    /\ \E headers \in header_choices :
          log' = DoLogHeaders(headers, "Response")
    /\ UNCHANGED <<mon_vars, client_vars, last_task, req_vars, found, session,
                   op, granted, ser_vars, threads>>

\* the dicts that give each name of a subset the value
HeaderDicts(names, value) ==
    {[name \in chosen |-> value] : chosen \in SUBSET names}

\* headers the application passes, the client's default headers, and headers
\* of an answer, the names in the letter case of the sender
CallHeaders ==
    HeaderDicts({<<"a", "u", "t", "h", "o", "r", "i", "z", "a", "t", "i", "o", "n">>, <<"X", "-", "V", "C", "L", "O", "U", "D", "-", "A", "U", "T", "H", "O", "R", "I", "Z", "A", "T", "I", "O", "N">>, <<"A", "c", "c", "e", "p", "t">>},
                "secret-1")
DefaultHeaders == HeaderDicts({<<"A", "u", "t", "h", "o", "r", "i", "z", "a", "t", "i", "o", "n">>}, "secret-2")
AnswerHeaders ==
    HeaderDicts({<<"X", "-", "V", "M", "W", "A", "R", "E", "-", "V", "C", "L", "O", "U", "D", "-", "A", "C", "C", "E", "S", "S", "-", "T", "O", "K", "E", "N">>,
                 <<"x", "-", "v", "m", "w", "a", "r", "e", "-", "v", "c", "l", "o", "u", "d", "-", "a", "c", "c", "e", "s", "s", "-", "t", "o", "k", "e", "n">>, <<"x", "-", "v", "c", "l", "o", "u", "d", "-", "a", "u", "t", "h", "o", "r", "i", "z", "a", "t", "i", "o", "n">>,
                 <<"C", "o", "n", "t", "e", "n", "t", "-", "T", "y", "p", "e">>}, "secret-3")

\* one request on a client that logs headers
InitLog ==
    /\ MonIdle
    /\ ReqIdle
    /\ SerIdle
    /\ ClientInit({<<"h">>}, {None})

NextLog ==
    \/ LogRequestHeaders(CallHeaders, DefaultHeaders)
    \/ LogResponseHeaders(AnswerHeaders)

SpecLog == InitLog /\ [][NextLog]_vars

UpperLetters == <<"A", "B", "C", "D", "E", "F", "G", "H", "I", "J", "K", "L", "M", "N", "O", "P", "Q", "R", "S", "T", "U", "V", "W", "X", "Y", "Z">>
LowerLetters == <<"a", "b", "c", "d", "e", "f", "g", "h", "i", "j", "k", "l", "m", "n", "o", "p", "q", "r", "s", "t", "u", "v", "w", "x", "y", "z">>

\* the name in lower case
FoldCase(name) ==
    [i \in 1..Len(name) |->
        IF \E k \in 1..Len(UpperLetters) : UpperLetters[k] = name[i]
        THEN LowerLetters[CHOOSE k \in 1..Len(UpperLetters) :
                              UpperLetters[k] = name[i]]
        ELSE name[i]]

\* C25: no entry of the log holds the value of a header whose name, in
\* whatever letter case, is on the redaction list: the entry holds
\* [REDACTED] in its place
C25_ListedHeadersAreRedacted ==
    \A i \in 1..Len(log) :
        \A name \in DOMAIN log[i].headers :
            FoldCase(name) \in {FoldCase(n) : n \in HEADERS_TO_REDACT} =>
                log[i].headers[name] = REDACTED

\* C26: one request calls the transport at most twice, once for itself and
\* once for the follow-up GET of a Location header, also when the answer to
\* the follow-up GET carries a Location header
C26_AtMostOneFollowUp == transport_calls <= 2

\* set_credentials returned to its caller without an exception
SetCredentialsReturned ==
    op.name = "set_credentials" /\ op.phase = "ended" /\ op.exc = NoExc

\* C27 (under SpecAuth): when set_credentials has returned normally, a
\* session is held and the stored Authorization default header is the one of
\* the credentials of that call: "Bearer <bearer_token>" for bearer
\* credentials, the token the login answer granted for basic credentials. In
\* particular a bearer login answered with an empty session list does not
\* return normally with the session and token of an earlier login.
C27_ReturnedLoginIsOfItsCredentials ==
    SetCredentialsReturned =>
        /\ session # NoneObj
        /\ granted # NoneObj
        /\ HEADER_AUTHORIZATION \in DOMAIN default_headers
        /\ default_headers[HEADER_AUTHORIZATION] =
               granted.token_type \o " " \o granted.access_token
        /\ op.creds.kind = "bearer" =>
               granted = [token_type |-> BEARER_TOKEN_TYPE,
                          access_token |-> op.creds.bearer_token]
        /\ op.creds.kind = "basic" =>
               granted = [token_type |-> "Bearer", access_token |-> "t1"]

====
